---------------------------- MODULE Spec2Model ----------------------------
(***************************************************************************)
(* Model of the Azure/Terraform alignment agent: the Terraform value       *)
(* resolution (terraform_parser.py), the comparison engine                 *)
(* (comparison_engine.py), the CLI command generator (cli_generator.py),   *)
(* the command executor (executor.py) and the agent tool functions with    *)
(* their process-wide session state (agent_tools.py).                      *)
(*                                                                         *)
(* A Python str is a sequence of tokens (a token is a run of characters    *)
(* that the program's string operations never split).  A Python value is a *)
(* record [k, s, keys, items]: k is the type ("none", "str", "bool",       *)
(* "list", "dict"), s the text of a str or bool, keys/items the ordered    *)
(* keys and values of a dict, items the elements of a list.                *)
(***************************************************************************)
EXTENDS Integers, Sequences, FiniteSets, TLC

----------------------------------------------------------------------------
(* Python str operations *)

\* str.lower() on one token
LowerTok(t) ==
    CASE t = "M" -> "m"
      [] t = "A" -> "a"
      [] t = "B" -> "b"
      [] t = "V" -> "v"
      [] t = "E" -> "e"
      [] t = "W" -> "w"
      [] t = "True" -> "true"
      [] t = "False" -> "false"
      [] OTHER -> t

\* str.lower()
Lower(s) == [i \in 1..Len(s) |-> LowerTok(s[i])]

\* s[i:] of a token sequence
Drop(s, n) == IF n >= Len(s) THEN <<>> ELSE SubSeq(s, n + 1, Len(s))

RECURSIVE LStrip(_)
LStrip(s) == IF s # <<>> /\ Head(s) = " " THEN LStrip(Tail(s)) ELSE s

RECURSIVE RStrip(_)
RStrip(s) ==
    IF s # <<>> /\ s[Len(s)] = " " THEN RStrip(SubSeq(s, 1, Len(s) - 1)) ELSE s

\* str.strip()
Strip(s) == RStrip(LStrip(s))

\* `tok in s` for a marker that is one token
Contains(s, tok) == \E i \in 1..Len(s) : s[i] = tok

\* `sub in s` for a marker of several tokens
ContainsSeq(s, sub) ==
    \E i \in 1..(Len(s) - Len(sub) + 1) : SubSeq(s, i, i + Len(sub) - 1) = sub

RECURSIVE LastDot(_)
\* the index of the last "." of s, 0 when there is none
LastDot(s) == IF s = <<>> THEN 0
              ELSE IF s[Len(s)] = "." THEN Len(s)
              ELSE LastDot(SubSeq(s, 1, Len(s) - 1))

\* s.split(".")[-1]
LastPart(s) == Drop(s, LastDot(s))

RECURSIVE SplitDots(_)
\* s.split(".")
SplitDots(s) ==
    IF ~Contains(s, ".") THEN <<s>>
    ELSE LET i == CHOOSE j \in 1..Len(s) :
                     s[j] = "." /\ \A m \in 1..(j - 1) : s[m] # "."
         IN <<SubSeq(s, 1, i - 1)>> \o SplitDots(Drop(s, i))

\* code point order of the tokens a sorted() call meets
TokRank(t) ==
    CASE t = " " -> 0
      [] t = "${" -> 1
      [] t = "10.0.0.0/16" -> 2
      [] t = "10.1.0.0/16" -> 3
      [] t = "A" -> 4
      [] t = "B" -> 5
      [] t = "a" -> 6
      [] t = "b" -> 7
      [] OTHER -> 8

RECURSIVE StrLess(_, _)
\* a < b of two str
StrLess(a, b) ==
    IF b = <<>> THEN FALSE
    ELSE IF a = <<>> THEN TRUE
    ELSE IF TokRank(Head(a)) # TokRank(Head(b))
         THEN TokRank(Head(a)) < TokRank(Head(b))
    ELSE StrLess(Tail(a), Tail(b))

----------------------------------------------------------------------------
(* Python values *)

None == [k |-> "none", s |-> <<>>, keys |-> <<>>, items |-> <<>>]
Str(t) == [k |-> "str", s |-> t, keys |-> <<>>, items |-> <<>>]
Bool(b) == [k |-> "bool", s |-> IF b THEN <<"True">> ELSE <<"False">>,
            keys |-> <<>>, items |-> <<>>]
List(xs) == [k |-> "list", s |-> <<>>, keys |-> <<>>, items |-> xs]
Dict(ks, vs) == [k |-> "dict", s |-> <<>>, keys |-> ks, items |-> vs]
EmptyDict == Dict(<<>>, <<>>)

\* bool(value)
Truthy(v) ==
    CASE v.k = "none" -> FALSE
      [] v.k = "str" -> v.s # <<>>
      [] v.k = "bool" -> v.s = <<"True">>
      [] v.k = "list" -> v.items # <<>>
      [] v.k = "dict" -> v.keys # <<>>

\* key in d
HasKey(d, key) == \E i \in 1..Len(d.keys) : d.keys[i] = key

\* d[key]
DictAt(d, key) == d.items[CHOOSE i \in 1..Len(d.keys) : d.keys[i] = key]

\* d.get(key, default)
DictGetOr(d, key, default) == IF HasKey(d, key) THEN DictAt(d, key) ELSE default

\* d.get(key)
DictGet(d, key) == DictGetOr(d, key, None)

\* d[key] = value: an existing key keeps its position
DictSet(d, key, value) ==
    IF HasKey(d, key)
    THEN LET i == CHOOSE j \in 1..Len(d.keys) : d.keys[j] = key
         IN Dict(d.keys, [d.items EXCEPT ![i] = value])
    ELSE Dict(Append(d.keys, key), Append(d.items, value))

\* set(d.keys())
KeySet(d) == {d.keys[i] : i \in 1..Len(d.keys)}

RECURSIVE PyStr(_)
RECURSIVE JoinStr(_, _)
\* sep.join(str(v) for v in xs)
JoinStr(xs, sep) ==
    IF xs = <<>> THEN <<>>
    ELSE IF Len(xs) = 1 THEN PyStr(xs[1])
    ELSE PyStr(xs[1]) \o sep \o JoinStr(Tail(xs), sep)

RECURSIVE DictRepr(_, _)
DictRepr(ks, vs) ==
    IF ks = <<>> THEN <<>>
    ELSE ks[1] \o <<": ">> \o PyStr(vs[1])
         \o (IF Len(ks) = 1 THEN <<>> ELSE <<", ">> \o DictRepr(Tail(ks), Tail(vs)))

\* str(value)
PyStr(v) ==
    CASE v.k = "none" -> <<"None">>
      [] v.k = "str" -> v.s
      [] v.k = "bool" -> v.s
      [] v.k = "list" -> <<"[">> \o JoinStr(v.items, <<", ">>) \o <<"]">>
      [] v.k = "dict" -> <<"{">> \o DictRepr(v.keys, v.items) \o <<"}">>

----------------------------------------------------------------------------
(* terraform_parser.py *)

\* TERRAFORM_TO_AZURE_TYPE.get(terraform_type, terraform_type)
TERRAFORM_TO_AZURE_TYPE(terraform_type) ==
    CASE terraform_type = "azurerm_resource_group" -> "Microsoft.Resources/resourceGroups"
      [] terraform_type = "azurerm_storage_account" -> "Microsoft.Storage/storageAccounts"
      [] terraform_type = "azurerm_storage_container" ->
             "Microsoft.Storage/storageAccounts/blobServices/containers"
      [] terraform_type = "azurerm_virtual_network" -> "Microsoft.Network/virtualNetworks"
      [] terraform_type = "azurerm_subnet" -> "Microsoft.Network/virtualNetworks/subnets"
      [] terraform_type = "azurerm_network_security_group" ->
             "Microsoft.Network/networkSecurityGroups"
      [] terraform_type = "azurerm_network_security_rule" ->
             "Microsoft.Network/networkSecurityGroups/securityRules"
      [] terraform_type = "azurerm_public_ip" -> "Microsoft.Network/publicIPAddresses"
      [] terraform_type = "azurerm_network_interface" -> "Microsoft.Network/networkInterfaces"
      [] terraform_type = "azurerm_linux_virtual_machine" -> "Microsoft.Compute/virtualMachines"
      [] terraform_type = "azurerm_windows_virtual_machine" -> "Microsoft.Compute/virtualMachines"
      [] terraform_type = "azurerm_virtual_machine" -> "Microsoft.Compute/virtualMachines"
      [] terraform_type = "azurerm_key_vault" -> "Microsoft.KeyVault/vaults"
      [] terraform_type = "azurerm_key_vault_secret" -> "Microsoft.KeyVault/vaults/secrets"
      [] terraform_type = "azurerm_key_vault_key" -> "Microsoft.KeyVault/vaults/keys"
      [] OTHER -> terraform_type

SUPPORTED_TERRAFORM_TYPES ==
    { "azurerm_storage_account", "azurerm_virtual_network", "azurerm_subnet",
      "azurerm_network_security_group", "azurerm_linux_virtual_machine",
      "azurerm_windows_virtual_machine", "azurerm_key_vault" }

\* value.startswith("${var.") and value.endswith("}")
IsVarRef(s) == Len(s) >= 3 /\ s[1] = "${" /\ s[2] = "var." /\ s[Len(s)] = "}"

\* value[6:-1]
VarName(s) == SubSeq(s, 3, Len(s) - 1)

RECURSIVE ParserResolveValueDefaultFirst(_, _, _)
\* the resolution with the declared default taken before the override
ParserResolveValueDefaultFirst(value, variables, tfvars) ==
    CASE value.k = "str" ->
             IF IsVarRef(value.s)
             THEN IF HasKey(variables, VarName(value.s))
                     /\ DictAt(variables, VarName(value.s)) # None
                  THEN DictAt(variables, VarName(value.s))
                  ELSE IF HasKey(tfvars, VarName(value.s))
                       THEN DictAt(tfvars, VarName(value.s))
                       ELSE value
             ELSE value
      [] value.k = "list" ->
             List([i \in 1..Len(value.items) |->
                      ParserResolveValueDefaultFirst(value.items[i], variables, tfvars)])
      [] value.k = "dict" ->
             Dict(value.keys,
                  [i \in 1..Len(value.items) |->
                      ParserResolveValueDefaultFirst(value.items[i], variables, tfvars)])
      [] OTHER -> value

RECURSIVE ParserResolveValue(_, _, _)
\* TerraformParser._resolve_value; variables maps a declared name to its default
\* (None when it has none), tfvars is self.tfvars
ParserResolveValue(value, variables, tfvars) ==
    CASE value.k = "str" ->
             IF IsVarRef(value.s)
             THEN IF HasKey(tfvars, VarName(value.s))
                  THEN DictAt(tfvars, VarName(value.s))
                  ELSE IF HasKey(variables, VarName(value.s))
                          /\ DictAt(variables, VarName(value.s)) # None
                       THEN DictAt(variables, VarName(value.s))
                       ELSE value
             ELSE value
      [] value.k = "list" ->
             List([i \in 1..Len(value.items) |->
                      ParserResolveValue(value.items[i], variables, tfvars)])
      [] value.k = "dict" ->
             Dict(value.keys,
                  [i \in 1..Len(value.items) |->
                      ParserResolveValue(value.items[i], variables, tfvars)])
      [] OTHER -> value

\* TerraformParser._resolve_config
ResolveConfig(config, variables, tfvars) ==
    Dict(config.keys,
         [i \in 1..Len(config.items) |->
             ParserResolveValue(config.items[i], variables, tfvars)])

RECURSIVE ResourceResolveValueNoMarker(_)
\* _resolve_value that returns a variable expression as it stands
ResourceResolveValueNoMarker(value) ==
    IF value.k = "str" THEN value.s
    ELSE IF value.k = "list" /\ Len(value.items) = 1
         THEN ResourceResolveValueNoMarker(value.items[1])
         ELSE IF Truthy(value) THEN PyStr(value) ELSE <<>>

RECURSIVE ResourceResolveValue(_)
\* TerraformResource._resolve_value: the result is a str
ResourceResolveValue(value) ==
    IF value.k = "str"
    THEN IF Contains(value.s, "${")
         THEN <<"<variable:", " ">> \o value.s \o <<">">>
         ELSE value.s
    ELSE IF value.k = "list" /\ Len(value.items) = 1
         THEN ResourceResolveValue(value.items[1])
         ELSE IF Truthy(value) THEN PyStr(value) ELSE <<>>

\* TerraformResource(terraform_type, name, config) with __post_init__
TerraformResource(terraform_type, name, config) ==
    [ terraform_type |-> terraform_type,
      name |-> name,
      config |-> config,
      azure_type |-> TERRAFORM_TO_AZURE_TYPE(terraform_type),
      resource_name |-> ResourceResolveValue(DictGetOr(config, <<"name">>, Str(name))),
      location |-> ResourceResolveValue(DictGetOr(config, <<"location">>, Str(<<>>))),
      tags |-> DictGetOr(config, <<"tags">>, EmptyDict) ]

\* the second pass of TerraformParser.parse_directory over the resource blocks
ParseResources(blocks, variables, tfvars) ==
    [i \in 1..Len(blocks) |->
        TerraformResource(blocks[i].terraform_type, blocks[i].name,
                          ResolveConfig(blocks[i].config, variables, tfvars))]

\* a .tf file: the variable blocks (name -> default) and the resource blocks it
\* declares, or text that hcl2.load cannot parse
TerraformFile(malformed, variables, resources) ==
    [malformed |-> malformed, variables |-> variables, resources |-> resources]

RECURSIVE DictUpdate(_, _, _)
\* d[k] = v for each (k, v) in turn
DictUpdate(d, ks, vs) ==
    IF ks = <<>> THEN d
    ELSE DictUpdate(DictSet(d, Head(ks), Head(vs)), Tail(ks), Tail(vs))

RECURSIVE CollectVariables(_)
\* the first pass of parse_directory: config.variables[var_name] = ...
CollectVariables(files) ==
    IF files = <<>> THEN EmptyDict
    ELSE LET file == files[Len(files)]
         IN DictUpdate(CollectVariables(SubSeq(files, 1, Len(files) - 1)),
                       file.variables.keys, file.variables.items)

RECURSIVE CollectResources(_)
\* the resource blocks of the files, in the order the second pass meets them
CollectResources(files) ==
    IF files = <<>> THEN <<>>
    ELSE Head(files).resources \o CollectResources(Tail(files))

\* TerraformParser.parse_directory: <<the TerraformConfig>>, or <<>> when
\* parse_file raises (hcl2.load is called outside any try block)
ParsedDirectory(files, tfvars) ==
    IF \E n \in 1..Len(files) : files[n].malformed THEN <<>>
    ELSE <<[variables |-> CollectVariables(files),
            resources |-> ParseResources(CollectResources(files),
                                         CollectVariables(files), tfvars)]>>

\* TerraformConfig.get_supported_resources
GetSupportedResources(resources) ==
    SelectSeq(resources, LAMBDA r : r.terraform_type \in SUPPORTED_TERRAFORM_TYPES)

----------------------------------------------------------------------------
(* comparison_engine.py *)

\* PROPERTY_MAPPINGS.get(terraform_type, {}).items(): (Terraform property, Azure path)
PROPERTY_MAPPINGS(terraform_type) ==
    CASE terraform_type = "azurerm_storage_account" ->
           << <<<<"name">>, <<"name">>>>,
              <<<<"location">>, <<"location">>>>,
              <<<<"account_tier">>, <<"properties", ".", "account_tier">>>>,
              <<<<"account_replication_type">>,
                <<"properties", ".", "account_replication_type">>>>,
              <<<<"access_tier">>, <<"properties", ".", "access_tier">>>>,
              <<<<"enable_https_traffic_only">>,
                <<"properties", ".", "enable_https_traffic_only">>>>,
              <<<<"min_tls_version">>, <<"properties", ".", "min_tls_version">>>>,
              <<<<"allow_nested_items_to_be_public">>,
                <<"properties", ".", "allow_blob_public_access">>>>,
              <<<<"tags">>, <<"tags">>>> >>
      [] terraform_type = "azurerm_virtual_network" ->
           << <<<<"name">>, <<"name">>>>,
              <<<<"location">>, <<"location">>>>,
              <<<<"address_space">>, <<"properties", ".", "address_space">>>>,
              <<<<"dns_servers">>, <<"properties", ".", "dns_servers">>>>,
              <<<<"tags">>, <<"tags">>>> >>
      [] terraform_type = "azurerm_network_security_group" ->
           << <<<<"name">>, <<"name">>>>,
              <<<<"location">>, <<"location">>>>,
              <<<<"tags">>, <<"tags">>>> >>
      [] terraform_type \in {"azurerm_linux_virtual_machine",
                             "azurerm_windows_virtual_machine"} ->
           << <<<<"name">>, <<"name">>>>,
              <<<<"location">>, <<"location">>>>,
              <<<<"size">>, <<"properties", ".", "vm_size">>>>,
              <<<<"admin_username">>,
                <<"properties", ".", "os_profile", ".", "admin_username">>>>,
              <<<<"computer_name">>,
                <<"properties", ".", "os_profile", ".", "computer_name">>>>,
              <<<<"tags">>, <<"tags">>>> >>
      [] terraform_type = "azurerm_key_vault" ->
           << <<<<"name">>, <<"name">>>>,
              <<<<"location">>, <<"location">>>>,
              <<<<"sku_name">>, <<"properties", ".", "sku_name">>>>,
              <<<<"soft_delete_retention_days">>,
                <<"properties", ".", "soft_delete_enabled">>>>,
              <<<<"purge_protection_enabled">>,
                <<"properties", ".", "purge_protection_enabled">>>>,
              <<<<"enabled_for_deployment">>,
                <<"properties", ".", "enabled_for_deployment">>>>,
              <<<<"enabled_for_disk_encryption">>,
                <<"properties", ".", "enabled_for_disk_encryption">>>>,
              <<<<"enabled_for_template_deployment">>,
                <<"properties", ".", "enabled_for_template_deployment">>>>,
              <<<<"tags">>, <<"tags">>>> >>
      [] OTHER -> <<>>

\* an AzureResource record: name, resource_type, location, tags, properties
AzureResource(name, resource_type, location, tags, properties) ==
    [ name |-> name, resource_type |-> resource_type, location |-> location,
      tags |-> tags, properties |-> properties ]

\* getattr(resource, part, None) on an AzureResource
GetAttr(resource, part) ==
    CASE part = <<"name">> -> Str(resource.name)
      [] part = <<"resource_type">> -> Str(<<resource.resource_type>>)
      [] part = <<"location">> -> Str(resource.location)
      [] part = <<"tags">> -> resource.tags
      [] part = <<"properties">> -> resource.properties
      [] OTHER -> None

RECURSIVE WalkParts(_, _)
\* the loop of _get_nested_value once value is no longer the AzureResource
WalkParts(value, parts) ==
    IF parts = <<>> THEN value
    ELSE IF value.k = "dict"
         THEN LET next == DictGet(value, Head(parts))
              IN IF next = None THEN None ELSE WalkParts(next, Tail(parts))
         ELSE None

\* ComparisonEngine._get_nested_value
GetNestedValue(resource, path) ==
    LET parts == SplitDots(path)
        first == GetAttr(resource, Head(parts))
    IN IF first = None THEN None ELSE WalkParts(first, Tail(parts))

RECURSIVE SortInsert(_, _)
\* the place of x in an already sorted list (sorted() is stable)
SortInsert(sorted, x) ==
    IF sorted = <<>> THEN <<x>>
    ELSE IF StrLess(x.s, Head(sorted).s) THEN <<x>> \o sorted
    ELSE <<Head(sorted)>> \o SortInsert(Tail(sorted), x)

RECURSIVE Sorted(_)
\* sorted(xs) of a list of str
Sorted(xs) ==
    IF xs = <<>> THEN <<>>
    ELSE SortInsert(Sorted(SubSeq(xs, 1, Len(xs) - 1)), xs[Len(xs)])

\* the TypeError that `<` raises between two values that have no order
TypeError == [k |-> "TypeError", s |-> <<>>, keys |-> <<>>, items |-> <<>>]

\* sorted(xs) returns: with two elements or more it compares them with `<`, which
\* is defined between two str and between two bool, and raises TypeError between
\* two dict, with None, and between a str and a value of another type
Orderable(xs) ==
    \/ Len(xs) < 2
    \/ \A i \in 1..Len(xs) : xs[i].k = "str"
    \/ \A i \in 1..Len(xs) : xs[i].k = "bool"

RECURSIVE NormalizeValue(_)
\* ComparisonEngine._normalize_value; TypeError when sorted() raises
NormalizeValue(value) ==
    CASE value.k = "none" -> None
      [] value.k = "str" -> Str(Strip(Lower(value.s)))
      [] value.k = "list" ->
             LET items == [i \in 1..Len(value.items) |-> NormalizeValue(value.items[i])]
             IN IF \E i \in 1..Len(items) : items[i] = TypeError THEN TypeError
                ELSE IF ~Orderable(items) THEN TypeError
                ELSE List(Sorted(items))
      [] value.k = "dict" ->
             LET items == [i \in 1..Len(value.items) |-> NormalizeValue(value.items[i])]
             IN IF \E i \in 1..Len(items) : items[i] = TypeError THEN TypeError
                ELSE Dict(value.keys, items)
      [] OTHER -> value

RECURSIVE ValuesEqual(_, _)
\* ComparisonEngine._values_equal
ValuesEqual(val1, val2) ==
    IF val1 = None /\ val2 = None THEN TRUE
    ELSE IF val1 = None \/ val2 = None THEN FALSE
    ELSE IF val1.k = "list" /\ val2.k = "list"
         THEN IF Len(val1.items) # Len(val2.items) THEN FALSE
              ELSE \A i \in 1..Len(val1.items) :
                       ValuesEqual(val1.items[i], val2.items[i])
    ELSE IF val1.k = "dict" /\ val2.k = "dict"
         THEN IF KeySet(val1) # KeySet(val2) THEN FALSE
              ELSE \A i \in 1..Len(val1.keys) :
                       ValuesEqual(val1.items[i], DictAt(val2, val1.keys[i]))
    ELSE val1 = val2

\* self._values_equal(self._normalize_value(a), self._normalize_value(b)): "True",
\* "False", or "TypeError" when a normalization raises
NormalizedEqual(a, b) ==
    IF NormalizeValue(a) = TypeError \/ NormalizeValue(b) = TypeError THEN "TypeError"
    ELSE IF ValuesEqual(NormalizeValue(a), NormalizeValue(b)) THEN "True"
    ELSE "False"

\* a PropertyDifference
PropertyDifference(property_path, terraform_value, azure_value, description) ==
    [ property_path |-> property_path, terraform_value |-> terraform_value,
      azure_value |-> azure_value, description |-> description ]

RECURSIVE LowerKeys(_, _)
\* {k.lower(): v for k, v in tags.items()}, folded onto acc
LowerKeys(tags, acc) ==
    IF tags.keys = <<>> THEN acc
    ELSE LowerKeys(Dict(Tail(tags.keys), Tail(tags.items)),
                   DictSet(acc, Lower(Head(tags.keys)), Head(tags.items)))

\* tags or {}
OrEmpty(tags) == IF Truthy(tags) THEN tags ELSE EmptyDict

\* the order in which `for key in all_keys` visits a set of str: it follows the
\* interpreter's string hashing, given here as the order hash_order of all keys
SetIteration(keys, hash_order) == SelectSeq(hash_order, LAMBDA key : key \in keys)

\* the body of the loop of _compare_tags for one key
TagDifference(key, tf_tags_lower, azure_tags_lower) ==
    LET tf_value == DictGet(tf_tags_lower, key)
        azure_value == DictGet(azure_tags_lower, key)
    IN IF tf_value # azure_value
       THEN IF tf_value = None THEN <<>>
            ELSE IF azure_value = None
                 THEN <<PropertyDifference(<<"tags", ".">> \o key, tf_value, None,
                            <<"Tag '">> \o key \o <<"' missing in Azure">>)>>
                 ELSE <<PropertyDifference(<<"tags", ".">> \o key, tf_value, azure_value,
                            <<"Tag '">> \o key \o <<"' value differs">>)>>
       ELSE <<>>

RECURSIVE TagDifferences(_, _, _)
TagDifferences(keys, tf_tags_lower, azure_tags_lower) ==
    IF keys = <<>> THEN <<>>
    ELSE TagDifference(Head(keys), tf_tags_lower, azure_tags_lower)
         \o TagDifferences(Tail(keys), tf_tags_lower, azure_tags_lower)

\* ComparisonEngine._compare_tags
CompareTags(tf_tags, azure_tags, hash_order) ==
    LET tf_tags_lower == LowerKeys(OrEmpty(tf_tags), EmptyDict)
        azure_tags_lower == LowerKeys(OrEmpty(azure_tags), EmptyDict)
        all_keys == KeySet(tf_tags_lower) \cup KeySet(azure_tags_lower)
    IN TagDifferences(SetIteration(all_keys, hash_order), tf_tags_lower, azure_tags_lower)

\* isinstance(tf_value, str) and "<variable:" in tf_value
IsVariableMarked(tf_value) == tf_value.k = "str" /\ Contains(tf_value.s, "<variable:")

\* the body of the loop of _compare_properties for one mapping entry
MappedDifference(terraform_resource, azure_resource, tf_prop, azure_path) ==
    LET tf_value == DictGet(terraform_resource.config, tf_prop)
        azure_value == GetNestedValue(azure_resource, azure_path)
    IN IF tf_value = None THEN <<>>
       ELSE IF IsVariableMarked(tf_value) THEN <<>>
       ELSE IF ~ValuesEqual(NormalizeValue(tf_value), NormalizeValue(azure_value))
            THEN <<PropertyDifference(tf_prop, tf_value, azure_value,
                       <<"Property '">> \o tf_prop \o <<"' differs">>)>>
            ELSE <<>>

RECURSIVE MappedDifferences(_, _, _)
MappedDifferences(terraform_resource, azure_resource, mapping) ==
    IF mapping = <<>> THEN <<>>
    ELSE MappedDifference(terraform_resource, azure_resource,
                          Head(mapping)[1], Head(mapping)[2])
         \o MappedDifferences(terraform_resource, azure_resource, Tail(mapping))

\* ComparisonEngine._compare_properties
CompareProperties(terraform_resource, azure_resource, hash_order) ==
    MappedDifferences(terraform_resource, azure_resource,
                      PROPERTY_MAPPINGS(terraform_resource.terraform_type))
    \o CompareTags(DictGetOr(terraform_resource.config, <<"tags">>, EmptyDict),
                   OrEmpty(azure_resource.tags), hash_order)

high_risk_properties ==
    { <<"network_rules">>, <<"access_policies">>, <<"security_rules">>,
      <<"admin_username">>, <<"admin_password">>, <<"sku_name">>, <<"size">> }

medium_risk_properties ==
    { <<"location">>, <<"address_space">>, <<"subnets">>, <<"vm_size">> }

\* the risk of the first difference that is in either set
AssessRiskFirstListed(differences) ==
    LET listed == {i \in 1..Len(differences) :
                      LastPart(differences[i].property_path)
                          \in high_risk_properties \cup medium_risk_properties}
        first == CHOOSE i \in listed : \A j \in listed : i <= j
    IN IF listed = {} THEN "low"
       ELSE IF LastPart(differences[first].property_path) \in high_risk_properties
            THEN "high"
            ELSE "medium"

\* ComparisonEngine._assess_risk
AssessRisk(differences) ==
    IF \E i \in 1..Len(differences) :
           LastPart(differences[i].property_path) \in high_risk_properties
    THEN "high"
    ELSE IF \E i \in 1..Len(differences) :
                LastPart(differences[i].property_path) \in medium_risk_properties
         THEN "medium"
         ELSE "low"

\* a ResourceDifference; an Optional field is <<>> (None) or <<value>>
ResourceDifference(difference_type, resource_name, resource_type, terraform_type, terraform_resource, azure_resource, property_differences, risk_level) ==
    [ difference_type |-> difference_type, resource_name |-> resource_name,
      resource_type |-> resource_type, terraform_type |-> terraform_type,
      terraform_resource |-> terraform_resource, azure_resource |-> azure_resource,
      property_differences |-> property_differences, risk_level |-> risk_level ]

RECURSIVE BuildAzureIndex(_, _)
\* compare, "Index Azure resources by type and name": azure_index[type][name.lower()]
BuildAzureIndex(azure_resources, azure_index) ==
    IF azure_resources = <<>> THEN azure_index
    ELSE LET resource == Head(azure_resources)
             inner == DictGetOr(azure_index, resource.resource_type, EmptyDict)
         IN BuildAzureIndex(Tail(azure_resources),
                DictSet(azure_index, resource.resource_type,
                        DictSet(inner, Lower(resource.name), resource)))

\* resource.resource_name.lower() if resource.resource_name else resource.name.lower()
IndexName(resource) ==
    IF resource.resource_name # <<>> THEN Lower(resource.resource_name)
    ELSE Lower(resource.name)

RECURSIVE LookupAnyType(_, _)
LookupAnyType(azure_index, resource_name) ==
    IF azure_index.keys = <<>> THEN <<>>
    ELSE IF HasKey(Head(azure_index.items), resource_name)
         THEN <<DictAt(Head(azure_index.items), resource_name)>>
         ELSE LookupAnyType(Dict(Tail(azure_index.keys), Tail(azure_index.items)),
                            resource_name)

\* a lookup by name alone, whatever the type
LookupAzureAnyType(azure_index, azure_type, resource_name) ==
    LookupAnyType(azure_index, resource_name)

\* azure_index.get(azure_type, {}).get(resource_name), <<>> when None
LookupAzure(azure_index, azure_type, resource_name) ==
    IF HasKey(azure_index, azure_type)
       /\ HasKey(DictAt(azure_index, azure_type), resource_name)
    THEN <<DictAt(DictAt(azure_index, azure_type), resource_name)>>
    ELSE <<>>

\* "<variable:" in resource_name
NameUnresolved(resource_name) == Contains(resource_name, "<variable:")

\* the iteration with the matched count incremented for a drifted pair too
CompareOneCountingDrift(tf_resource, azure_index, hash_order, acc) ==
    LET azure_type == TERRAFORM_TO_AZURE_TYPE(tf_resource.terraform_type)
        resource_name == IndexName(tf_resource)
        azure_resource == LookupAzure(azure_index, azure_type, resource_name)
    IN IF NameUnresolved(resource_name) THEN acc
       ELSE IF azure_resource = <<>>
       THEN [acc EXCEPT !.differences = Append(@,
                ResourceDifference("missing_in_azure",
                    IF tf_resource.resource_name # <<>> THEN tf_resource.resource_name
                    ELSE tf_resource.name,
                    azure_type, <<tf_resource.terraform_type>>, <<tf_resource>>, <<>>,
                    <<>>, "medium"))]
       ELSE LET property_diffs ==
                    CompareProperties(tf_resource, azure_resource[1], hash_order)
                marked == [acc EXCEPT !.matched_azure =
                               @ \cup {<<azure_type, resource_name>>},
                                      !.matched_count = @ + 1]
            IN IF property_diffs # <<>>
               THEN [marked EXCEPT !.differences = Append(@,
                        ResourceDifference("property_drift", azure_resource[1].name,
                            azure_type, <<tf_resource.terraform_type>>, <<tf_resource>>,
                            azure_resource, property_diffs, AssessRisk(property_diffs)))]
               ELSE marked

\* the handling of one declarative resource that records nothing for a resource
\* without a live counterpart
CompareOneDroppingMissing(tf_resource, azure_index, hash_order, acc) ==
    LET azure_type == TERRAFORM_TO_AZURE_TYPE(tf_resource.terraform_type)
        resource_name == IndexName(tf_resource)
        azure_resource == LookupAzure(azure_index, azure_type, resource_name)
    IN IF NameUnresolved(resource_name) \/ azure_resource = <<>> THEN acc
       ELSE LET property_diffs ==
                    CompareProperties(tf_resource, azure_resource[1], hash_order)
                marked == [acc EXCEPT !.matched_azure =
                               @ \cup {<<azure_type, resource_name>>}]
            IN IF property_diffs # <<>>
               THEN [marked EXCEPT !.differences = Append(@,
                        ResourceDifference("property_drift", azure_resource[1].name,
                            azure_type, <<tf_resource.terraform_type>>, <<tf_resource>>,
                            azure_resource, property_diffs, AssessRisk(property_diffs)))]
               ELSE [marked EXCEPT !.matched_count = @ + 1]

\* one iteration of "Compare Terraform resources against Azure"; acc holds
\* result.differences, result.matched_count and matched_azure
CompareOne(tf_resource, azure_index, hash_order, acc) ==
    LET azure_type == TERRAFORM_TO_AZURE_TYPE(tf_resource.terraform_type)
        resource_name == IndexName(tf_resource)
        azure_resource == LookupAzure(azure_index, azure_type, resource_name)
    IN IF NameUnresolved(resource_name) THEN acc
       ELSE IF azure_resource = <<>>
       THEN [acc EXCEPT !.differences = Append(@,
                ResourceDifference("missing_in_azure",
                    IF tf_resource.resource_name # <<>> THEN tf_resource.resource_name
                    ELSE tf_resource.name,
                    azure_type, <<tf_resource.terraform_type>>, <<tf_resource>>, <<>>,
                    <<>>, "medium"))]
       ELSE LET property_diffs ==
                    CompareProperties(tf_resource, azure_resource[1], hash_order)
                marked == [acc EXCEPT !.matched_azure =
                               @ \cup {<<azure_type, resource_name>>}]
            IN IF property_diffs # <<>>
               THEN [marked EXCEPT !.differences = Append(@,
                        ResourceDifference("property_drift", azure_resource[1].name,
                            azure_type, <<tf_resource.terraform_type>>, <<tf_resource>>,
                            azure_resource, property_diffs, AssessRisk(property_diffs)))]
               ELSE [marked EXCEPT !.matched_count = @ + 1]

RECURSIVE CompareTerraform(_, _, _, _)
CompareTerraform(terraform_resources, azure_index, hash_order, acc) ==
    IF terraform_resources = <<>> THEN acc
    ELSE CompareTerraform(Tail(terraform_resources), azure_index, hash_order,
             CompareOne(Head(terraform_resources), azure_index, hash_order, acc))

RECURSIVE MissingInTerraformOfTypeAll(_, _, _)
\* the inner loop without the test against matched_azure
MissingInTerraformOfTypeAll(azure_type, resources, matched_azure) ==
    IF resources.keys = <<>> THEN <<>>
    ELSE <<ResourceDifference("missing_in_terraform", Head(resources.items).name,
               azure_type, <<>>, <<>>, <<Head(resources.items)>>, <<>>, "low")>>
         \o MissingInTerraformOfTypeAll(azure_type,
                Dict(Tail(resources.keys), Tail(resources.items)), matched_azure)

RECURSIVE MissingInTerraformOfType(_, _, _)
\* the inner loop of "Find resources in Azure but not in Terraform"
MissingInTerraformOfType(azure_type, resources, matched_azure) ==
    IF resources.keys = <<>> THEN <<>>
    ELSE (IF <<azure_type, Head(resources.keys)>> \notin matched_azure
          THEN <<ResourceDifference("missing_in_terraform", Head(resources.items).name,
                     azure_type, <<>>, <<>>, <<Head(resources.items)>>, <<>>, "low")>>
          ELSE <<>>)
         \o MissingInTerraformOfType(azure_type,
                Dict(Tail(resources.keys), Tail(resources.items)), matched_azure)

RECURSIVE MissingInTerraform(_, _)
\* the outer loop of "Find resources in Azure but not in Terraform"
MissingInTerraform(azure_index, matched_azure) ==
    IF azure_index.keys = <<>> THEN <<>>
    ELSE MissingInTerraformOfType(Head(azure_index.keys), Head(azure_index.items),
                                  matched_azure)
         \o MissingInTerraform(Dict(Tail(azure_index.keys), Tail(azure_index.items)),
                               matched_azure)

\* ComparisonEngine.compare; the ComparisonResult
Compare(resource_group, azure_resources, terraform_resources, hash_order) ==
    LET azure_index == BuildAzureIndex(azure_resources, EmptyDict)
        acc == CompareTerraform(terraform_resources, azure_index, hash_order,
                   [differences |-> <<>>, matched_count |-> 0, matched_azure |-> {}])
    IN [ resource_group |-> resource_group,
         differences |-> acc.differences
                         \o MissingInTerraform(azure_index, acc.matched_azure),
         azure_resource_count |-> Len(azure_resources),
         terraform_resource_count |-> Len(terraform_resources),
         matched_count |-> acc.matched_count ]

\* ComparisonResult.missing_in_azure / missing_in_terraform / drifted
DifferencesOfType(result, difference_type) ==
    SelectSeq(result.differences, LAMBDA d : d.difference_type = difference_type)

----------------------------------------------------------------------------
(* cli_generator.py *)

\* CliCommandGenerator.CLI_COMMANDS.get(terraform_type): <<>> when None
CLI_COMMANDS(terraform_type) ==
    CASE terraform_type = "azurerm_storage_account" ->
           <<[create |-> <<"az storage account create">>,
              update |-> <<"az storage account update">>,
              resource_name_param |-> <<"--name">>]>>
      [] terraform_type = "azurerm_virtual_network" ->
           <<[create |-> <<"az network vnet create">>,
              update |-> <<"az network vnet update">>,
              resource_name_param |-> <<"--name">>]>>
      [] terraform_type = "azurerm_subnet" ->
           <<[create |-> <<"az network vnet subnet create">>,
              update |-> <<"az network vnet subnet update">>,
              resource_name_param |-> <<"--name">>]>>
      [] terraform_type = "azurerm_network_security_group" ->
           <<[create |-> <<"az network nsg create">>,
              update |-> <<"az network nsg update">>,
              resource_name_param |-> <<"--name">>]>>
      [] terraform_type \in {"azurerm_linux_virtual_machine",
                             "azurerm_windows_virtual_machine"} ->
           <<[create |-> <<"az vm create">>,
              update |-> <<"az vm update">>,
              resource_name_param |-> <<"--name">>]>>
      [] terraform_type = "azurerm_key_vault" ->
           <<[create |-> <<"az keyvault create">>,
              update |-> <<"az keyvault update">>,
              resource_name_param |-> <<"--name">>]>>
      [] OTHER -> <<>>

\* CliCommandGenerator.PROPERTY_MAPPINGS.get(terraform_type, {}): property -> parameter
CLI_PROPERTY_MAPPINGS(terraform_type) ==
    CASE terraform_type = "azurerm_storage_account" ->
           Dict(<< <<"location">>, <<"account_tier">>, <<"account_replication_type">>,
                   <<"access_tier">>, <<"enable_https_traffic_only">>,
                   <<"min_tls_version">>, <<"allow_nested_items_to_be_public">>,
                   <<"tags">> >>,
                << <<"--location">>, <<"--sku">>, <<"--sku">>, <<"--access-tier">>,
                   <<"--https-only">>, <<"--min-tls-version">>,
                   <<"--allow-blob-public-access">>, <<"--tags">> >>)
      [] terraform_type = "azurerm_virtual_network" ->
           Dict(<< <<"location">>, <<"address_space">>, <<"dns_servers">>, <<"tags">> >>,
                << <<"--location">>, <<"--address-prefixes">>, <<"--dns-servers">>,
                   <<"--tags">> >>)
      [] terraform_type = "azurerm_network_security_group" ->
           Dict(<< <<"location">>, <<"tags">> >>, << <<"--location">>, <<"--tags">> >>)
      [] terraform_type \in {"azurerm_linux_virtual_machine",
                             "azurerm_windows_virtual_machine"} ->
           Dict(<< <<"location">>, <<"size">>, <<"admin_username">>, <<"tags">> >>,
                << <<"--location">>, <<"--size">>, <<"--admin-username">>, <<"--tags">> >>)
      [] terraform_type = "azurerm_key_vault" ->
           Dict(<< <<"location">>, <<"sku_name">>, <<"enabled_for_deployment">>,
                   <<"enabled_for_disk_encryption">>,
                   <<"enabled_for_template_deployment">>, <<"tags">> >>,
                << <<"--location">>, <<"--sku">>, <<"--enabled-for-deployment">>,
                   <<"--enabled-for-disk-encryption">>,
                   <<"--enabled-for-template-deployment">>, <<"--tags">> >>)
      [] OTHER -> EmptyDict

\* CliCommandGenerator._is_variable
IsVariable(value) ==
    value.k = "str" /\ (Contains(value.s, "<variable:") \/ Contains(value.s, "${"))

RECURSIVE JoinKeyValues(_, _)
\* " ".join(f"{k}={v}" for k, v in value.items())
JoinKeyValues(ks, vs) ==
    IF ks = <<>> THEN <<>>
    ELSE ks[1] \o <<"=">> \o PyStr(vs[1])
         \o (IF Len(ks) = 1 THEN <<>> ELSE <<" ">> \o JoinKeyValues(Tail(ks), Tail(vs)))

\* CliCommandGenerator._format_param_value
FormatParamValue(value) ==
    CASE value.k = "bool" -> Lower(PyStr(value))
      [] value.k = "list" -> JoinStr(value.items, <<" ">>)
      [] value.k = "dict" -> JoinKeyValues(value.keys, value.items)
      [] OTHER -> PyStr(value)

\* CliCommandGenerator._handle_special_cases
HandleSpecialCases(terraform_type, config, params) ==
    IF terraform_type = "azurerm_storage_account"
    THEN LET tier == DictGetOr(config, <<"account_tier">>, Str(<<"Standard">>))
             replication == DictGetOr(config, <<"account_replication_type">>,
                                      Str(<<"LRS">>))
         IN IF Truthy(tier) /\ Truthy(replication)
            THEN DictSet(params, <<"--sku">>,
                         PyStr(tier) \o <<"_">> \o PyStr(replication))
            ELSE params
    ELSE IF terraform_type \in {"azurerm_linux_virtual_machine",
                                "azurerm_windows_virtual_machine"}
    THEN LET given == DictGetOr(config, <<"source_image_reference">>, EmptyDict)
             source_image == IF given.k = "list" /\ given.items # <<>>
                             THEN given.items[1] ELSE given
         IN IF source_image.k = "dict"
            THEN LET publisher == DictGet(source_image, <<"publisher">>)
                     offer == DictGet(source_image, <<"offer">>)
                     sku == DictGet(source_image, <<"sku">>)
                     version == DictGetOr(source_image, <<"version">>, Str(<<"latest">>))
                 IN IF Truthy(publisher) /\ Truthy(offer) /\ Truthy(sku)
                    THEN DictSet(params, <<"--image">>,
                             PyStr(publisher) \o <<":">> \o PyStr(offer) \o <<":">>
                             \o PyStr(sku) \o <<":">> \o PyStr(version))
                    ELSE params
            ELSE params
    ELSE params

RECURSIVE CommandParts(_, _)
\* the parts of _build_command_string after base_cmd, each led by the separator
CommandParts(ks, vs) ==
    IF ks = <<>> THEN <<>>
    ELSE <<" \\\n    ">> \o ks[1]
         \o (IF Contains(vs[1], " ") THEN <<" \"">> \o vs[1] \o <<"\"">>
             ELSE <<" ">> \o vs[1])
         \o CommandParts(Tail(ks), Tail(vs))

\* CliCommandGenerator._build_command_string
BuildCommandString(base_cmd, params) == base_cmd \o CommandParts(params.keys, params.items)

\* a CliCommand
CliCommand(command, description, action, resource_name, resource_type, risk_level, parameters) ==
    [ command |-> command, description |-> description, action |-> action,
      resource_name |-> resource_name, resource_type |-> resource_type,
      risk_level |-> risk_level, parameters |-> parameters ]

\* name, resource group and (if self.subscription_id) subscription
BaseParams(name_param, resource_name, resource_group, subscription_id) ==
    LET params == Dict(<<name_param, <<"--resource-group">>>>,
                       <<resource_name, resource_group>>)
    IN IF subscription_id # <<>>
       THEN DictSet(params, <<"--subscription">>, subscription_id)
       ELSE params

RECURSIVE CreateParams(_, _, _, _)
\* _generate_create_command, "Map Terraform properties to CLI parameters"
CreateParams(ks, vs, tf_config, params) ==
    IF ks = <<>> THEN params
    ELSE LET value == DictGet(tf_config, Head(ks))
         IN CreateParams(Tail(ks), Tail(vs), tf_config,
                IF value # None /\ ~IsVariable(value)
                THEN DictSet(params, Head(vs), FormatParamValue(value))
                ELSE params)

\* CliCommandGenerator._generate_create_command: <<>> when None
GenerateCreateCommand(diff, resource_group, subscription_id) ==
    IF diff.terraform_type = <<>> \/ diff.terraform_resource = <<>> THEN <<>>
    ELSE LET terraform_type == diff.terraform_type[1]
             cmd_config == CLI_COMMANDS(terraform_type)
         IN IF cmd_config = <<>> THEN <<>>
            ELSE LET prop_mapping == CLI_PROPERTY_MAPPINGS(terraform_type)
                     tf_config == diff.terraform_resource[1].config
                     params == HandleSpecialCases(terraform_type, tf_config,
                                   CreateParams(prop_mapping.keys, prop_mapping.items,
                                       tf_config,
                                       BaseParams(cmd_config[1].resource_name_param,
                                           diff.resource_name, resource_group,
                                           subscription_id)))
                 IN <<CliCommand(BuildCommandString(cmd_config[1].create, params),
                          <<"Create ", terraform_type, " '">> \o diff.resource_name
                              \o <<"'">>,
                          "create", diff.resource_name, diff.resource_type, "medium",
                          params)>>

RECURSIVE UpdateParamsFromAzure(_, _, _)
\* the mapping of the drifted properties with the live value in place of the
\* declared one
UpdateParamsFromAzure(property_differences, prop_mapping, params) ==
    IF property_differences = <<>> THEN params
    ELSE LET prop_diff == Head(property_differences)
             prop_name == LastPart(prop_diff.property_path)
         IN UpdateParamsFromAzure(Tail(property_differences), prop_mapping,
                IF HasKey(prop_mapping, prop_name) /\ prop_diff.terraform_value # None
                   /\ ~IsVariable(prop_diff.terraform_value)
                THEN DictSet(params, DictAt(prop_mapping, prop_name),
                             FormatParamValue(prop_diff.azure_value))
                ELSE params)

RECURSIVE UpdateParams(_, _, _)
\* _generate_update_command, "Map only the drifted properties"
UpdateParams(property_differences, prop_mapping, params) ==
    IF property_differences = <<>> THEN params
    ELSE LET prop_diff == Head(property_differences)
             prop_name == LastPart(prop_diff.property_path)
         IN UpdateParams(Tail(property_differences), prop_mapping,
                IF HasKey(prop_mapping, prop_name) /\ prop_diff.terraform_value # None
                   /\ ~IsVariable(prop_diff.terraform_value)
                THEN DictSet(params, DictAt(prop_mapping, prop_name),
                             FormatParamValue(prop_diff.terraform_value))
                ELSE params)

RECURSIVE JoinPaths(_)
\* ', '.join(changed_props)
JoinPaths(property_differences) ==
    IF property_differences = <<>> THEN <<>>
    ELSE property_differences[1].property_path
         \o (IF Len(property_differences) = 1 THEN <<>>
             ELSE <<", ">> \o JoinPaths(Tail(property_differences)))

\* CliCommandGenerator._generate_update_command: <<>> when None
GenerateUpdateCommand(diff, resource_group, subscription_id) ==
    IF diff.terraform_type = <<>> THEN <<>>
    ELSE LET terraform_type == diff.terraform_type[1]
             cmd_config == CLI_COMMANDS(terraform_type)
         IN IF cmd_config = <<>> THEN <<>>
            ELSE LET params == UpdateParams(diff.property_differences,
                                   CLI_PROPERTY_MAPPINGS(terraform_type),
                                   BaseParams(cmd_config[1].resource_name_param,
                                       diff.resource_name, resource_group,
                                       subscription_id))
                 IN IF Len(params.keys) <= 3 THEN <<>>
                    ELSE <<CliCommand(BuildCommandString(cmd_config[1].update, params),
                               <<"Update ", terraform_type, " '">> \o diff.resource_name
                                   \o <<"' - properties: ">>
                                   \o JoinPaths(diff.property_differences),
                               "update", diff.resource_name, diff.resource_type,
                               diff.risk_level, params)>>

\* generate_commands that also answers a live-only resource, with a delete
CommandForWithDelete(diff, resource_group, subscription_id) ==
    IF diff.difference_type = "missing_in_azure"
    THEN GenerateCreateCommand(diff, resource_group, subscription_id)
    ELSE IF diff.difference_type = "property_drift"
    THEN GenerateUpdateCommand(diff, resource_group, subscription_id)
    ELSE <<CliCommand(<<"az resource delete">>, <<"Delete">>, "delete",
               diff.resource_name, diff.resource_type, "high", EmptyDict)>>

\* the body of the loop of generate_commands for one difference
CommandFor(diff, resource_group, subscription_id) ==
    IF diff.difference_type = "missing_in_azure"
    THEN GenerateCreateCommand(diff, resource_group, subscription_id)
    ELSE IF diff.difference_type = "property_drift"
    THEN GenerateUpdateCommand(diff, resource_group, subscription_id)
    ELSE <<>>

RECURSIVE GenerateCommands(_, _, _)
\* CliCommandGenerator.generate_commands over comparison_result.differences
GenerateCommands(differences, resource_group, subscription_id) ==
    IF differences = <<>> THEN <<>>
    ELSE CommandFor(Head(differences), resource_group, subscription_id)
         \o GenerateCommands(Tail(differences), resource_group, subscription_id)

\* generate_cli_commands
GenerateCliCommands(comparison_result, subscription_id) ==
    GenerateCommands(comparison_result.differences, comparison_result.resource_group,
                     subscription_id)

----------------------------------------------------------------------------
(* executor.py *)

\* a CommandExecutor: dry_run, _approved_commands, _rejected_commands
CommandExecutor(dry_run) ==
    [dry_run |-> dry_run, approved_commands |-> {}, rejected_commands |-> {}]

\* CommandExecutor.set_approval
SetApproval(executor, command_index, approved) ==
    IF approved
    THEN [executor EXCEPT !.approved_commands = @ \cup {command_index},
                          !.rejected_commands = @ \ {command_index}]
    ELSE [executor EXCEPT !.rejected_commands = @ \cup {command_index},
                          !.approved_commands = @ \ {command_index}]

\* CommandExecutor.approve_all
ApproveAll(executor, cmds) ==
    [executor EXCEPT !.approved_commands = @ \cup (0..(Len(cmds) - 1))]

\* CommandExecutor.execute without its dry_run branch
ExecuteBranchIgnoringDryRun(executor, i) ==
    IF i \in executor.rejected_commands THEN "rejected"
    ELSE IF i \notin executor.approved_commands THEN "pending_approval"
    ELSE "run"

\* the branch CommandExecutor.execute takes for the command at index i;
\* "run" is the branch that calls _execute_command
ExecuteBranch(executor, i) ==
    IF i \in executor.rejected_commands THEN "rejected"
    ELSE IF i \notin executor.approved_commands THEN "pending_approval"
    ELSE IF executor.dry_run THEN "skipped"
    ELSE "run"

\* _execute_command, "remove line continuations": the text given to subprocess.run
ShellText(command) ==
    [n \in 1..Len(command.command) |->
        IF command.command[n] = " \\\n    " THEN " " ELSE command.command[n]]

\* an ExecutionResult
ExecutionResult(command, status) == [command |-> command, status |-> status]

\* CommandExecutor.execute: the results; outcomes[n] is how the shell ends the
\* n-th command ("success" or "failed") if it is run
Execute(executor, cmds, outcomes) ==
    [n \in 1..Len(cmds) |->
        ExecutionResult(cmds[n],
            IF ExecuteBranch(executor, n - 1) = "run" THEN outcomes[n]
            ELSE ExecuteBranch(executor, n - 1))]

RECURSIVE ShellCallsFrom(_, _, _)
ShellCallsFrom(executor, cmds, n) ==
    IF n > Len(cmds) THEN <<>>
    ELSE (IF ExecuteBranch(executor, n - 1) = "run"
          THEN <<[index |-> n - 1, text |-> ShellText(cmds[n])]>>
          ELSE <<>>)
         \o ShellCallsFrom(executor, cmds, n + 1)

\* CommandExecutor.execute: the calls of _execute_command, in order: the index of
\* the command and the text given to subprocess.run
ShellCalls(executor, cmds) == ShellCallsFrom(executor, cmds, 1)

\* the positions of the commands CommandExecutor.execute runs
RunIndices(executor, cmds) ==
    {n \in 1..Len(cmds) : ExecuteBranch(executor, n - 1) = "run"}

\* how the shell may end each command that is run: return code 0 or not
Outcomes(executor, cmds) == [RunIndices(executor, cmds) -> {"success", "failed"}]

\* CommandExecutor.execute_single: the branch taken
ExecuteSingleBranch(executor, approved) ==
    IF ~approved THEN "pending_approval"
    ELSE IF executor.dry_run THEN "skipped"
    ELSE "run"

RECURSIVE ApproveIndices(_, _)
\* execute_with_approval: set_approval(idx, True) for each approved index
ApproveIndices(executor, approved_indices) ==
    IF approved_indices = <<>> THEN executor
    ELSE ApproveIndices(SetApproval(executor, Head(approved_indices), TRUE),
                        Tail(approved_indices))

\* execute_with_approval: the executor it builds
ApprovalExecutor(approved_indices, dry_run) ==
    ApproveIndices(CommandExecutor(dry_run), approved_indices)

----------------------------------------------------------------------------
(* agent_tools.py *)

\* the keys of _session_state; a key not in the dict is <<>>, a stored value <<v>>
EmptySession ==
    [ azure_resources |-> <<>>, resource_group |-> <<>>, subscription_id |-> <<>>,
      terraform_config |-> <<>>, terraform_source |-> <<>>,
      comparison_result |-> <<>>, commands |-> <<>> ]

\* the arguments of a call: the indices it names, its dry_run and approved flags
Request(command_indices, dry_run, approved) ==
    [command_indices |-> command_indices, dry_run |-> dry_run, approved |-> approved]

\* what a tool returned: its status and, for execute_commands, its results
Response(tool, status, results) == [tool |-> tool, status |-> status, results |-> results]

\* execute_commands, "Validate indices"
InvalidIndices(command_indices, cmds) ==
    SelectSeq(command_indices, LAMBDA i : i < 0 \/ i >= Len(cmds))

\* the results of all commands, requested or not
FilterResultsKeepAll(results, command_indices, n) == results

RECURSIVE FilterResults(_, _, _)
\* execute_commands: [r for i, r in enumerate(results) if i in command_indices]
FilterResults(results, command_indices, n) ==
    IF n > Len(results) THEN <<>>
    ELSE (IF \E m \in 1..Len(command_indices) : command_indices[m] = n - 1
          THEN <<results[n]>> ELSE <<>>)
         \o FilterResults(results, command_indices, n + 1)

\* execute_commands: the branch taken for the stored commands (<<>>: none stored)
ExecuteCommandsBranch(stored, command_indices) ==
    IF stored = <<>> THEN "error"
    ELSE IF command_indices = <<>> THEN "pending_approval"
    ELSE IF InvalidIndices(command_indices, stored[1]) # <<>> THEN "error"
    ELSE "completed"

\* execute_commands: the response
ExecuteCommandsResponse(stored, command_indices, dry_run, outcomes) ==
    IF ExecuteCommandsBranch(stored, command_indices) = "completed"
    THEN Response("execute_commands", "completed",
             FilterResults(Execute(ApprovalExecutor(command_indices, dry_run),
                                   stored[1], outcomes),
                           command_indices, 1))
    ELSE Response("execute_commands", ExecuteCommandsBranch(stored, command_indices),
                  <<>>)

\* execute_commands: how the shell may end the commands the call runs
ExecuteCommandsOutcomes(stored, command_indices, dry_run) ==
    IF ExecuteCommandsBranch(stored, command_indices) = "completed"
    THEN Outcomes(ApprovalExecutor(command_indices, dry_run), stored[1])
    ELSE {<<>>}

\* execute_commands: the calls of _execute_command
ExecuteCommandsShell(stored, command_indices, dry_run) ==
    IF ExecuteCommandsBranch(stored, command_indices) = "completed"
    THEN ShellCalls(ApprovalExecutor(command_indices, dry_run), stored[1])
    ELSE <<>>

----------------------------------------------------------------------------
(* The inputs: a Terraform source and live inventories *)

\* at most this many resource blocks in a Terraform source
MaxTf == 2
\* at most this many records in a live inventory
MaxAz == 2

\* the variable blocks of the source: declared name -> default (None: no default)
DeclaredVariables ==
    Dict(<< <<"loc">>, <<"env">>, <<"region">> >>,
         << Str(<<"eastus">>), None, Str(<<"northeurope">>) >>)

\* the values of the source's .tfvars files (parse_directory, self.tfvars.update)
TfVars ==
    Dict(<< <<"region">>, <<"https">> >>, << Str(<<"westus2">>), Bool(TRUE) >>)

\* "${var.<name>}"
VarRef(name) == Str(<<"${", "var.", name, "}">>)

Block(terraform_type, name, config) ==
    [terraform_type |-> terraform_type, name |-> name, config |-> config]

\* storage account "MyAcct": location from a default, a tag from a variable without one
BlockStorageA ==
    Block("azurerm_storage_account", <<"sa">>,
          Dict(<< <<"name">>, <<"location">>, <<"account_tier">>, <<"tags">> >>,
               << Str(<<"M", "yacct">>), VarRef("loc"), Str(<<"Standard">>),
                  Dict(<< <<"E", "nv">>, <<"owner">> >>,
                       << VarRef("env"), Str(<<"ops">>) >>) >>))

\* storage account "myacct" (the same key as "MyAcct"): replication from an
\* undeclared variable
BlockStorageB ==
    Block("azurerm_storage_account", <<"sa2">>,
          Dict(<< <<"name">>, <<"location">>, <<"account_tier">>,
                  <<"account_replication_type">> >>,
               << Str(<<"m", "yacct">>), Str(<<"eastus">>), Str(<<"Premium">>),
                  VarRef("repl") >>))

\* storage account "stlogs" whose account_tier is the empty string; a field from
\* an override that is not a string
BlockStorageEmptyTier ==
    Block("azurerm_storage_account", <<"logs">>,
          Dict(<< <<"name">>, <<"account_tier">>, <<"account_replication_type">>,
                  <<"enable_https_traffic_only">> >>,
               << Str(<<"stlogs">>), Str(<<>>), Str(<<"GRS">>), VarRef("https") >>))

\* a virtual network whose name is an undeclared variable
BlockVnetUnnamed ==
    Block("azurerm_virtual_network", <<"net_x">>,
          Dict(<< <<"name">>, <<"location">> >>,
               << VarRef("nm"), Str(<<"eastus">>) >>))

\* virtual network "vnet-core": location from an override, an address prefix from
\* an undeclared variable
BlockVnetCore ==
    Block("azurerm_virtual_network", <<"core">>,
          Dict(<< <<"name">>, <<"location">>, <<"address_space">> >>,
               << Str(<<"vnet-core">>), VarRef("region"),
                  List(<< Str(<<"10.0.0.0/16">>), VarRef("cidr") >>) >>))

\* Linux VM "vm-app1": size and image publisher from undeclared variables
BlockLinuxVm ==
    Block("azurerm_linux_virtual_machine", <<"app">>,
          Dict(<< <<"name">>, <<"location">>, <<"size">>, <<"admin_username">>,
                  <<"source_image_reference">> >>,
               << Str(<<"vm-app1">>), Str(<<"eastus">>), VarRef("size"),
                  Str(<<"azureuser">>),
                  List(<< Dict(<< <<"publisher">>, <<"offer">>, <<"sku">> >>,
                               << VarRef("pub"), Str(<<"ubuntu">>),
                                  Str(<<"22_04">>) >>) >>) >>))

\* Windows VM named by its block identifier "vm-app1"
BlockWindowsVm ==
    Block("azurerm_windows_virtual_machine", <<"vm-app1">>,
          Dict(<< <<"location">>, <<"size">>, <<"admin_username">> >>,
               << Str(<<"eastus">>), Str(<<"Standard_B2s">>), Str(<<"opsuser">>) >>))

\* network security group "nsg-web" with one tag
BlockNsg ==
    Block("azurerm_network_security_group", <<"web">>,
          Dict(<< <<"name">>, <<"tags">> >>,
               << Str(<<"nsg-web">>),
                  Dict(<< <<"owner">> >>, << Str(<<"ops">>) >>) >>))

\* Windows VM "vm-app1" with a tag whose key is "size"
BlockVmTagged ==
    Block("azurerm_windows_virtual_machine", <<"tagged">>,
          Dict(<< <<"name">>, <<"location">>, <<"size">>, <<"admin_username">>,
                  <<"tags">> >>,
               << Str(<<"vm-app1">>), Str(<<"eastus">>), Str(<<"Standard_B2s">>),
                  Str(<<"opsuser">>),
                  Dict(<< <<"size">> >>, << Str(<<"large">>) >>) >>))

\* the resource blocks a source is made of
Blocks ==
    { BlockStorageA, BlockStorageB, BlockStorageEmptyTier, BlockVnetUnnamed,
      BlockVnetCore, BlockLinuxVm, BlockWindowsVm, BlockNsg, BlockVmTagged }

LiveStorageLower ==
    AzureResource(<<"m", "yacct">>, "Microsoft.Storage/storageAccounts", <<"eastus">>,
        Dict(<< <<"e", "nv">> >>, << Str(<<"prod">>) >>),
        Dict(<< <<"account_tier">>, <<"account_replication_type">> >>,
             << Str(<<"Standard">>), Str(<<"LRS">>) >>))

\* the same key as LiveStorageLower, other properties
LiveStorageUpper ==
    AzureResource(<<"M", "yacct">>, "Microsoft.Storage/storageAccounts", <<"westus2">>,
        EmptyDict,
        Dict(<< <<"account_tier">>, <<"account_replication_type">> >>,
             << Str(<<"Premium">>), Str(<<"GRS">>) >>))

LiveVnetCore ==
    AzureResource(<<"vnet-core">>, "Microsoft.Network/virtualNetworks", <<"westus2">>,
        EmptyDict,
        Dict(<< <<"address_space">>, <<"dns_servers">> >>,
             << List(<< Str(<<"10.0.0.0/16">>) >>), List(<<>>) >>))

LiveVm ==
    AzureResource(<<"vm-app1">>, "Microsoft.Compute/virtualMachines", <<"eastus">>,
        EmptyDict,
        Dict(<< <<"vm_size">>, <<"os_profile">> >>,
             << Str(<<"Standard_B2s">>),
                Dict(<< <<"admin_username">>, <<"computer_name">> >>,
                     << Str(<<"opsuser">>), Str(<<"vm-app1">>) >>) >>))

\* the virtual machine in another region and of another size
LiveVmWest ==
    AzureResource(<<"vm-app1">>, "Microsoft.Compute/virtualMachines", <<"westus2">>,
        EmptyDict,
        Dict(<< <<"vm_size">>, <<"os_profile">> >>,
             << Str(<<"Standard_D2s">>),
                Dict(<< <<"admin_username">>, <<"computer_name">> >>,
                     << Str(<<"opsuser">>), Str(<<"vm-app1">>) >>) >>))

\* a network security group with the name of the virtual network
LiveNsgCore ==
    AzureResource(<<"vnet-core">>, "Microsoft.Network/networkSecurityGroups",
        <<"eastus">>, EmptyDict,
        Dict(<< <<"security_rules">> >>, << List(<<>>) >>))

\* network security group "nsg-web" with the declared tag and one more
LiveNsgWeb ==
    AzureResource(<<"nsg-web">>, "Microsoft.Network/networkSecurityGroups",
        <<"eastus">>,
        Dict(<< <<"owner">>, <<"e", "nv">> >>, << Str(<<"ops">>), Str(<<"prod">>) >>),
        Dict(<< <<"security_rules">> >>, << List(<<>>) >>))

\* the records an inventory is made of
LiveRecords ==
    { LiveStorageLower, LiveStorageUpper, LiveVnetCore, LiveVm, LiveVmWest,
      LiveNsgCore, LiveNsgWeb }

\* the sequences over S of length at most n
SeqUpTo(S, n) == UNION { [1..m -> S] : m \in 0..n }

\* the place of a resource type in the order in which scan_resource_group
\* extends its result
ScanOrder(resource_type) ==
    CASE resource_type = "Microsoft.Storage/storageAccounts" -> 1
      [] resource_type = "Microsoft.Network/virtualNetworks" -> 2
      [] resource_type = "Microsoft.Network/networkSecurityGroups" -> 3
      [] resource_type = "Microsoft.Compute/virtualMachines" -> 4
      [] resource_type = "Microsoft.KeyVault/vaults" -> 5

\* the inventories AzureScanner.scan_resource_group can return: the records of
\* one resource type after those of the types scanned before it
Inventories ==
    { inv \in SeqUpTo(LiveRecords, MaxAz) :
        \A i, j \in 1..Len(inv) :
            i < j => ScanOrder(inv[i].resource_type) <= ScanOrder(inv[j].resource_type) }

\* the lower-cased tag keys of the inputs
TagKeys == { <<"e", "nv">>, <<"owner">>, <<"size">> }

\* the orders in which the interpreter may iterate a set of the tag keys
HashOrders ==
    { h \in [1..Cardinality(TagKeys) -> TagKeys] :
        \A i, j \in 1..Cardinality(TagKeys) : i # j => h[i] # h[j] }

\* the resource group the pipeline is run for
EngineResourceGroup == <<"rg-app">>
\* <<>> stands for no subscription id
SubscriptionIds == { <<>>, <<"sub-1">> }

----------------------------------------------------------------------------
(* State *)

VARIABLES
    \* the reconciliation pipeline run once on one pair of snapshots
    tf_blocks,            \* the resource blocks of the Terraform source
    azure_resources,      \* the live inventory
    terraform_resources,  \* TerraformConfig.resources after parse_directory
    comparison_result,    \* <<>> or <<the ComparisonResult of compare>>
    commands,             \* the list generate_commands returned
    subscription_id,      \* the generator's subscription_id
    pc,                   \* the stage the pipeline has reached
    \* a scan of a resource group
    group_records,        \* the records the resource group holds
    scan_failed,          \* the resource types whose query raised
    \* a directory given to parse_directory
    tf_files,             \* the .tf files of the directory
    \* a pair of values given to the normalized comparison
    value_pair,           \* <<>> or <<a, b>>
    values_equal,         \* "none", or what the comparison of the pair gave
    \* a fetch of a Terraform source
    git_repository,       \* <<>> or <<the GitRepository of the call under way>>
    temp_dirs,            \* the temporary directories that exist on disk
    \* the agent session
    session_state,        \* agent_tools._session_state
    \* a CommandExecutor and the list it is given
    executor,             \* the CommandExecutor object
    exec_commands,        \* the stored command list, <<>> or <<the list>>
    \* what the last call did
    request,              \* the arguments of the last call
    response,             \* what the last tool or method call returned
    shell                 \* the calls of _execute_command the last call made

scanner_vars == <<group_records, scan_failed>>
input_vars == <<tf_files, value_pair, values_equal, git_repository, temp_dirs>>
engine_vars == <<tf_blocks, azure_resources, terraform_resources, comparison_result,
                 commands, subscription_id, pc, scanner_vars, input_vars>>
executor_vars == <<executor, exec_commands>>
call_vars == <<request, response, shell>>

vars == <<engine_vars, session_state, executor_vars, call_vars>>

NoRequest == Request(<<>>, FALSE, FALSE)
NoResponse == Response("none", "none", <<>>)

\* no scan under way, no directory given
ScannerIdle ==
    /\ group_records = <<>>
    /\ scan_failed = {}
    /\ tf_files = <<>>
    /\ value_pair = <<>>
    /\ values_equal = "none"
    /\ git_repository = <<>>
    /\ temp_dirs = {}

\* the pipeline at rest
EngineIdle ==
    /\ ScannerIdle
    /\ tf_blocks = <<>>
    /\ azure_resources = <<>>
    /\ terraform_resources = <<>>
    /\ comparison_result = <<>>
    /\ commands = <<>>
    /\ subscription_id = <<>>
    /\ pc = "idle"

\* no CommandExecutor in use
ExecutorIdle ==
    /\ executor = CommandExecutor(FALSE)
    /\ exec_commands = <<>>

----------------------------------------------------------------------------
(* The pipeline: parse_terraform, compare_resources, generate_cli_commands *)

EngineInit ==
    /\ ScannerIdle
    /\ tf_blocks \in SeqUpTo(Blocks, MaxTf)
    /\ azure_resources \in Inventories
    /\ terraform_resources = <<>>
    /\ comparison_result = <<>>
    /\ commands = <<>>
    /\ subscription_id = <<>>
    /\ pc = "loaded"
    /\ session_state = EmptySession
    /\ ExecutorIdle
    /\ request = NoRequest
    /\ response = NoResponse
    /\ shell = <<>>

\* parse_terraform
ParseTerraform ==
    /\ pc = "loaded"
    /\ terraform_resources' = ParseResources(tf_blocks, DeclaredVariables, TfVars)
    /\ pc' = "parsed"
    /\ UNCHANGED <<tf_blocks, azure_resources, comparison_result, commands,
                   subscription_id, session_state, executor_vars, call_vars,
                   scanner_vars, input_vars>>

\* compare_resources
CompareResources ==
    /\ pc = "parsed"
    /\ \E hash_order \in HashOrders :
           comparison_result' =
               <<Compare(EngineResourceGroup, azure_resources, terraform_resources,
                         hash_order)>>
    /\ pc' = "compared"
    /\ UNCHANGED <<tf_blocks, azure_resources, terraform_resources, commands,
                   subscription_id, session_state, executor_vars, call_vars,
                   scanner_vars, input_vars>>

\* generate_cli_commands
GenerateCli ==
    /\ pc = "compared"
    /\ \E sub \in SubscriptionIds :
           /\ subscription_id' = sub
           /\ commands' = GenerateCliCommands(comparison_result[1], sub)
    /\ pc' = "generated"
    /\ UNCHANGED <<tf_blocks, azure_resources, terraform_resources, comparison_result,
                   session_state, executor_vars, call_vars, scanner_vars, input_vars>>

EngineNext == ParseTerraform \/ CompareResources \/ GenerateCli

SpecEngine == EngineInit /\ [][EngineNext]_vars

----------------------------------------------------------------------------
(* TerraformParser.parse_directory on a directory of .tf files *)

\* at most this many .tf files in a directory
MaxFiles == 3

FileVariables == TerraformFile(FALSE, DeclaredVariables, <<>>)
FileStorage == TerraformFile(FALSE, EmptyDict, <<BlockStorageA, BlockStorageB>>)
FileNetwork ==
    TerraformFile(FALSE,
        Dict(<< <<"loc">> >>, << Str(<<"westus2">>) >>),
        <<BlockVnetCore, BlockNsg>>)
FileCompute == TerraformFile(FALSE, EmptyDict, <<BlockLinuxVm>>)
\* a file hcl2.load raises on
FileMalformed == TerraformFile(TRUE, EmptyDict, <<>>)

Files == { FileVariables, FileStorage, FileNetwork, FileCompute, FileMalformed }

\* the directories: the files in the order directory.glob("*.tf") yields them
Directories ==
    { d \in SeqUpTo(Files, MaxFiles) :
        \A i, j \in 1..Len(d) : i # j => d[i] # d[j] }

ParserInit ==
    /\ tf_files \in Directories
    /\ value_pair = <<>>
    /\ values_equal = "none"
    /\ git_repository = <<>>
    /\ temp_dirs = {}
    /\ group_records = <<>>
    /\ scan_failed = {}
    /\ tf_blocks = <<>>
    /\ azure_resources = <<>>
    /\ terraform_resources = <<>>
    /\ comparison_result = <<>>
    /\ commands = <<>>
    /\ subscription_id = <<>>
    /\ pc = "loaded"
    /\ session_state = EmptySession
    /\ ExecutorIdle
    /\ request = NoRequest
    /\ response = NoResponse
    /\ shell = <<>>

\* parse_directory returns its TerraformConfig, or raises
ParseDirectory ==
    /\ pc = "loaded"
    /\ LET config == ParsedDirectory(tf_files, TfVars)
       IN IF config = <<>>
          THEN /\ pc' = "raised"
               /\ UNCHANGED <<tf_blocks, terraform_resources>>
          ELSE /\ pc' = "parsed"
               /\ tf_blocks' = CollectResources(tf_files)
               /\ terraform_resources' = config[1].resources
    /\ UNCHANGED <<azure_resources, comparison_result, commands, subscription_id,
                   scanner_vars, input_vars, session_state, executor_vars, call_vars>>

ParserNext == ParseDirectory

SpecParser == ParserInit /\ [][ParserNext]_vars

----------------------------------------------------------------------------
(* the normalized comparison of two values, as _compare_properties makes it *)

\* the values given to the comparison: str that differ in case and in surrounding
\* blanks, lists of str, dicts, dicts of lists, lists of dicts
Values ==
    { None, Bool(TRUE),
      Str(<<"a">>), Str(<<"A">>), Str(<<" ", "a">>), Str(<<"b">>), Str(<<"B", " ">>),
      List(<<Str(<<"a">>)>>),
      List(<<Str(<<"b">>), Str(<<"a">>)>>),
      List(<<Str(<<"a">>), Str(<<"B">>)>>),
      List(<<Str(<<"a">>), Str(<<"a">>)>>),
      Dict(<<<<"tier">>>>, <<Str(<<"A">>)>>),
      Dict(<<<<"tier">>>>, <<Str(<<"a", " ">>)>>),
      Dict(<<<<"tier">>>>, <<Str(<<"b">>)>>),
      Dict(<<<<"kind">>>>, <<Str(<<"a">>)>>),
      Dict(<<<<"dns">>>>, <<List(<<Str(<<"b">>), Str(<<"a">>)>>)>>),
      Dict(<<<<"dns">>>>, <<List(<<Str(<<"A">>), Str(<<"b">>)>>)>>),
      List(<<Dict(<<<<"tier">>>>, <<Str(<<"A">>)>>),
             Dict(<<<<"tier">>>>, <<Str(<<"b">>)>>)>>),
      List(<<Dict(<<<<"tier">>>>, <<Str(<<"b">>)>>),
             Dict(<<<<"tier">>>>, <<Str(<<"a">>)>>)>>) }

NormalizeInit ==
    /\ value_pair \in { <<a, b>> : a \in Values, b \in Values }
    /\ values_equal = "none"
    /\ git_repository = <<>>
    /\ temp_dirs = {}
    /\ tf_files = <<>>
    /\ group_records = <<>>
    /\ scan_failed = {}
    /\ tf_blocks = <<>>
    /\ azure_resources = <<>>
    /\ terraform_resources = <<>>
    /\ comparison_result = <<>>
    /\ commands = <<>>
    /\ subscription_id = <<>>
    /\ pc = "given"
    /\ session_state = EmptySession
    /\ ExecutorIdle
    /\ request = NoRequest
    /\ response = NoResponse
    /\ shell = <<>>

\* tf_normalized, azure_normalized and the test of their equality
CompareValues ==
    /\ pc = "given"
    /\ values_equal' = NormalizedEqual(value_pair[1], value_pair[2])
    /\ pc' = "compared_values"
    /\ UNCHANGED <<tf_blocks, azure_resources, terraform_resources, comparison_result,
                   commands, subscription_id, scanner_vars, tf_files, value_pair,
                   git_repository, temp_dirs, session_state, executor_vars, call_vars>>

NormalizeNext == CompareValues

SpecNormalize == NormalizeInit /\ [][NormalizeNext]_vars

----------------------------------------------------------------------------
(* AzureScanner.scan_resource_group, then the pipeline on what it returned *)

\* the records of one resource type, in the order the service lists them
OfType(records, resource_type) ==
    SelectSeq(records, LAMBDA r : r.resource_type = resource_type)

\* the Terraform sources a scanned group is compared with
ScannerSources == { <<BlockStorageA, BlockVnetCore>>, <<BlockWindowsVm, BlockNsg>> }

ScannerInit ==
    /\ group_records \in Inventories
    /\ scan_failed = {}
    /\ tf_files = <<>>
    /\ value_pair = <<>>
    /\ values_equal = "none"
    /\ git_repository = <<>>
    /\ temp_dirs = {}
    /\ tf_blocks \in ScannerSources
    /\ azure_resources = <<>>
    /\ terraform_resources = <<>>
    /\ comparison_result = <<>>
    /\ commands = <<>>
    /\ subscription_id = <<>>
    /\ pc = "scan_storage_accounts"
    /\ session_state = EmptySession
    /\ ExecutorIdle
    /\ request = NoRequest
    /\ response = NoResponse
    /\ shell = <<>>

\* one _scan_<type> method where every exception ends the whole scan
ScanAborting(at, resource_type, then) ==
    /\ pc = at
    /\ LET listed == OfType(group_records, resource_type)
       IN \/ /\ azure_resources' = azure_resources \o listed
             /\ pc' = then
             /\ UNCHANGED scan_failed
          \/ /\ scan_failed' = scan_failed \cup {resource_type}
             /\ pc' = "aborted"
             /\ UNCHANGED azure_resources
    /\ UNCHANGED <<tf_blocks, terraform_resources, comparison_result, commands,
                   subscription_id, group_records, input_vars, session_state, executor_vars,
                   call_vars>>

\* one _scan_<type> method and the resources.extend of its result: the listing
\* is appended whole, or the query raises after n records were appended and the
\* except clause returns those
Scan(at, resource_type, then) ==
    /\ pc = at
    /\ LET listed == OfType(group_records, resource_type)
       IN \/ /\ azure_resources' = azure_resources \o listed
             /\ UNCHANGED scan_failed
          \/ \E n \in 0..Len(listed) :
                /\ azure_resources' = azure_resources \o SubSeq(listed, 1, n)
                /\ scan_failed' = scan_failed \cup {resource_type}
    /\ pc' = then
    /\ UNCHANGED <<tf_blocks, terraform_resources, comparison_result, commands,
                   subscription_id, group_records, input_vars, session_state, executor_vars,
                   call_vars>>

ScanStorageAccounts ==
    Scan("scan_storage_accounts", "Microsoft.Storage/storageAccounts",
         "scan_virtual_networks")

ScanVirtualNetworks ==
    Scan("scan_virtual_networks", "Microsoft.Network/virtualNetworks",
         "scan_network_security_groups")

ScanNetworkSecurityGroups ==
    Scan("scan_network_security_groups", "Microsoft.Network/networkSecurityGroups",
         "scan_virtual_machines")

ScanVirtualMachines ==
    Scan("scan_virtual_machines", "Microsoft.Compute/virtualMachines",
         "scan_key_vaults")

\* the last scan; scan_resource_group returns and the caller has its inventory
ScanKeyVaults ==
    Scan("scan_key_vaults", "Microsoft.KeyVault/vaults", "loaded")

ScannerNext ==
    \/ ScanStorageAccounts
    \/ ScanVirtualNetworks
    \/ ScanNetworkSecurityGroups
    \/ ScanVirtualMachines
    \/ ScanKeyVaults
    \/ ParseTerraform
    \/ CompareResources

SpecScanner == ScannerInit /\ [][ScannerNext]_vars

----------------------------------------------------------------------------
(* The agent session: the tool functions over _session_state *)

\* a block of a type outside SUPPORTED_TERRAFORM_TYPES
BlockPublicIp ==
    Block("azurerm_public_ip", <<"pip">>,
          Dict(<< <<"name">>, <<"location">> >>,
               << Str(<<"pip-web">>), Str(<<"eastus">>) >>))

\* the sources behind the Git URLs the session fetches
SourceAt(git_url) ==
    CASE git_url = "repo-a" -> <<BlockStorageA, BlockVnetCore, BlockVnetUnnamed>>
      [] git_url = "repo-b" -> <<BlockLinuxVm, BlockNsg, BlockPublicIp>>

GitUrls == {"repo-a", "repo-b"}

\* what AzureScanner.scan_resource_group returns for a group that holds
\* `records` when the queries of the types in `raised` raise at once: the except
\* clause of each _scan_<type> method returns its empty list
ScanReturn(records, raised) ==
    LET found(resource_type) ==
            IF resource_type \in raised THEN <<>> ELSE OfType(records, resource_type)
    IN found("Microsoft.Storage/storageAccounts")
       \o found("Microsoft.Network/virtualNetworks")
       \o found("Microsoft.Network/networkSecurityGroups")
       \o found("Microsoft.Compute/virtualMachines")
       \o found("Microsoft.KeyVault/vaults")

\* the resource types scan_resource_group queries
ScannedTypes ==
    { "Microsoft.Storage/storageAccounts", "Microsoft.Network/virtualNetworks",
      "Microsoft.Network/networkSecurityGroups", "Microsoft.Compute/virtualMachines",
      "Microsoft.KeyVault/vaults" }

\* a resource group that does not exist: every query on it raises
MissingResourceGroup == <<"rg-gone">>

\* what a scan of the session may be pointed at and find there: the
\* subscription, the resource group and the inventory returned
ScanTargets ==
    { [subscription_id |-> <<"sub-1">>, resource_group |-> <<"rg-app">>,
       resources |-> <<LiveStorageLower, LiveVnetCore>>],
      [subscription_id |-> <<"sub-1">>, resource_group |-> <<"rg-app">>,
       resources |-> <<LiveStorageLower>>],
      [subscription_id |-> <<"sub-2">>, resource_group |-> <<"rg-net">>,
       resources |-> <<LiveVm>>],
      [subscription_id |-> <<"sub-1">>, resource_group |-> MissingResourceGroup,
       resources |-> ScanReturn(<<>>, ScannedTypes)] }

\* the largest index a caller names
MaxIndex == 1
\* the most indices a caller names in one call
MaxIndices == 2

\* the command_indices of a call; <<>> stands for None and for []
IndexLists == SeqUpTo(-1..MaxIndex, MaxIndices)

Init ==
    /\ EngineIdle
    /\ ExecutorIdle
    /\ session_state = EmptySession
    /\ request = NoRequest
    /\ response = NoResponse
    /\ shell = <<>>

\* a scan that stores the subscription and the resource group it was called
\* with before it fails
ScanResourceGroupStoring ==
    /\ \E target \in ScanTargets :
           \/ /\ session_state' =
                     [session_state EXCEPT
                         !.azure_resources = <<target.resources>>,
                         !.resource_group = <<target.resource_group>>,
                         !.subscription_id = <<target.subscription_id>>]
              /\ response' = Response("scan_resource_group", "success", <<>>)
           \/ /\ response' = Response("scan_resource_group", "error", <<>>)
              /\ session_state' =
                     [session_state EXCEPT
                         !.resource_group = <<target.resource_group>>,
                         !.subscription_id = <<target.subscription_id>>]
    /\ request' = NoRequest
    /\ shell' = <<>>
    /\ UNCHANGED <<engine_vars, executor_vars>>

\* scan_resource_group: the scan succeeds with an inventory, or raises
ScanResourceGroup ==
    /\ \E target \in ScanTargets :
           \/ /\ session_state' =
                     [session_state EXCEPT
                         !.azure_resources = <<target.resources>>,
                         !.resource_group = <<target.resource_group>>,
                         !.subscription_id = <<target.subscription_id>>]
              /\ response' = Response("scan_resource_group", "success", <<>>)
           \/ /\ response' = Response("scan_resource_group", "error", <<>>)
              /\ UNCHANGED session_state
    /\ request' = NoRequest
    /\ shell' = <<>>
    /\ UNCHANGED <<engine_vars, executor_vars>>

\* fetch_terraform_from_git: clone and parse succeed, or one of them raises
FetchTerraformFromGit ==
    /\ \E git_url \in GitUrls :
           \/ /\ session_state' =
                     [session_state EXCEPT
                         !.terraform_config =
                             <<[resources |-> ParseResources(SourceAt(git_url),
                                                  DeclaredVariables, TfVars)]>>,
                         !.terraform_source = <<git_url>>]
              /\ response' = Response("fetch_terraform_from_git", "success", <<>>)
           \/ /\ response' = Response("fetch_terraform_from_git", "error", <<>>)
              /\ UNCHANGED session_state
    /\ request' = NoRequest
    /\ shell' = <<>>
    /\ UNCHANGED <<engine_vars, executor_vars>>

\* compare_azure_with_terraform
CompareAzureWithTerraform ==
    /\ IF session_state.azure_resources = <<>> \/ session_state.terraform_config = <<>>
       THEN /\ response' = Response("compare_azure_with_terraform", "error", <<>>)
            /\ UNCHANGED session_state
       ELSE \E hash_order \in HashOrders :
                /\ session_state' =
                       [session_state EXCEPT !.comparison_result =
                           <<Compare(session_state.resource_group[1],
                                 session_state.azure_resources[1],
                                 GetSupportedResources(
                                     session_state.terraform_config[1].resources),
                                 hash_order)>>]
                /\ response' = Response("compare_azure_with_terraform", "success", <<>>)
    /\ request' = NoRequest
    /\ shell' = <<>>
    /\ UNCHANGED <<engine_vars, executor_vars>>

\* _session_state.get("subscription_id")
SessionSubscription == 
    IF session_state.subscription_id = <<>> THEN <<>>
    ELSE session_state.subscription_id[1]

\* generate_alignment_commands
GenerateAlignmentCommands ==
    /\ IF session_state.comparison_result = <<>>
       THEN /\ response' = Response("generate_alignment_commands", "error", <<>>)
            /\ UNCHANGED session_state
       ELSE /\ session_state' =
                   [session_state EXCEPT !.commands =
                       <<GenerateCliCommands(session_state.comparison_result[1],
                                             SessionSubscription)>>]
            /\ response' = Response("generate_alignment_commands", "success", <<>>)
    /\ request' = NoRequest
    /\ shell' = <<>>
    /\ UNCHANGED <<engine_vars, executor_vars>>

\* a report tool that renders whatever the session holds
GenerateReportUnchecked ==
    /\ response' = Response("generate_report", "success", <<>>)
    /\ request' = NoRequest
    /\ shell' = <<>>
    /\ UNCHANGED <<session_state, engine_vars, executor_vars>>

\* generate_report: the report is rendered from the stored result and commands
GenerateReport ==
    /\ response' = Response("generate_report",
                       IF session_state.comparison_result = <<>> THEN "error"
                       ELSE "success", <<>>)
    /\ request' = NoRequest
    /\ shell' = <<>>
    /\ UNCHANGED <<session_state, engine_vars, executor_vars>>

\* execute_commands
ExecuteCommands ==
    /\ \E command_indices \in IndexLists, dry_run \in BOOLEAN :
           /\ request' = Request(command_indices, dry_run, FALSE)
           /\ shell' = ExecuteCommandsShell(session_state.commands, command_indices,
                                            dry_run)
           /\ \E outcomes \in ExecuteCommandsOutcomes(session_state.commands,
                                  command_indices, dry_run) :
                  response' = ExecuteCommandsResponse(session_state.commands,
                                  command_indices, dry_run, outcomes)
    /\ UNCHANGED <<session_state, engine_vars, executor_vars>>

\* get_session_state
GetSessionState ==
    /\ response' = Response("get_session_state", "success", <<>>)
    /\ request' = NoRequest
    /\ shell' = <<>>
    /\ UNCHANGED <<session_state, engine_vars, executor_vars>>

\* clear_session
ClearSession ==
    /\ session_state' = EmptySession
    /\ response' = Response("clear_session", "success", <<>>)
    /\ request' = NoRequest
    /\ shell' = <<>>
    /\ UNCHANGED <<engine_vars, executor_vars>>

Next ==
    \/ ScanResourceGroup
    \/ FetchTerraformFromGit
    \/ CompareAzureWithTerraform
    \/ GenerateAlignmentCommands
    \/ GenerateReport
    \/ ExecuteCommands
    \/ GetSessionState
    \/ ClearSession

Spec == Init /\ [][Next]_vars

----------------------------------------------------------------------------
(* fetch_terraform_from_git, step by step: the clone, the body of the with
   statement, the exit of the context manager *)

\* the most temporary directories left on disk before another fetch is made
MaxDirs == 3

\* the tag and subdirectory arguments; <<>> stands for None
Tags == { <<>>, <<"v1">> }
Subdirectories == { <<>>, <<"terraform">>, <<"modules">> }

\* target_path.exists(): the repositories hold a directory "terraform" only
SubdirectoryExists(subdirectory) == subdirectory = <<"terraform">>

\* GitRepository(config): _temp_dir is None
GitRepository(url, tag, subdirectory) ==
    [url |-> url, tag |-> tag, subdirectory |-> subdirectory, temp_dir |-> <<>>]

\* tempfile.mkdtemp: a directory that did not exist
Mkdtemp(dirs) == CHOOSE d \in 1..(Cardinality(dirs) + 1) : d \notin dirs

\* the session with no fetch under way
FetchInit ==
    /\ git_repository = <<>>
    /\ temp_dirs = {}
    /\ tf_files = <<>>
    /\ value_pair = <<>>
    /\ values_equal = "none"
    /\ group_records = <<>>
    /\ scan_failed = {}
    /\ tf_blocks = <<>>
    /\ azure_resources = <<>>
    /\ terraform_resources = <<>>
    /\ comparison_result = <<>>
    /\ commands = <<>>
    /\ subscription_id = <<>>
    /\ pc = "idle"
    /\ session_state = EmptySession
    /\ ExecutorIdle
    /\ request = NoRequest
    /\ response = NoResponse
    /\ shell = <<>>

\* what a step of the fetch leaves alone
FetchFrame ==
    UNCHANGED <<tf_blocks, azure_resources, terraform_resources, comparison_result,
                commands, subscription_id, scanner_vars, tf_files, value_pair,
                values_equal, executor_vars, request, shell>>

\* `with clone_terraform_repo(...) as tf_path`: the GitRepository is built and
\* __enter__ calls clone, which makes the temporary directory and then returns
\* the path or raises from clone_from, from the checkout of the tag, or for a
\* subdirectory that is missing; an exception of __enter__ leaves the with
\* statement without a call of __exit__ and the tool returns the error
EnterClone ==
    /\ pc = "idle"
    /\ Cardinality(temp_dirs) < MaxDirs
    /\ \E url \in GitUrls, tag \in Tags, subdirectory \in Subdirectories :
           LET temp_dir == Mkdtemp(temp_dirs)
               cloned == [GitRepository(url, tag, subdirectory)
                             EXCEPT !.temp_dir = <<temp_dir>>]
           IN /\ temp_dirs' = temp_dirs \cup {temp_dir}
              /\ \/ \E raised \in {"clone_from"} \cup (IF tag # <<>> THEN {"checkout"}
                                                        ELSE {}) :
                        /\ git_repository' = <<>>
                        /\ response' = Response("fetch_terraform_from_git", "error", <<>>)
                        /\ pc' = "idle"
                 \/ /\ subdirectory # <<>>
                    /\ ~SubdirectoryExists(subdirectory)
                    /\ git_repository' = <<>>
                    /\ response' = Response("fetch_terraform_from_git", "error", <<>>)
                    /\ pc' = "idle"
                 \/ /\ subdirectory # <<>> => SubdirectoryExists(subdirectory)
                    /\ git_repository' = <<cloned>>
                    /\ response' = NoResponse
                    /\ pc' = "cloned"
    /\ UNCHANGED session_state
    /\ FetchFrame

\* the body of the with statement: parse_terraform returns and the session stores
\* the configuration and its source, or parse_terraform raises
ParseInClone ==
    /\ pc = "cloned"
    /\ \/ /\ session_state' =
                 [session_state EXCEPT
                     !.terraform_config =
                         <<[resources |-> ParseResources(SourceAt(git_repository[1].url),
                                              DeclaredVariables, TfVars)]>>,
                     !.terraform_source = <<git_repository[1].url>>]
          /\ response' = Response("fetch_terraform_from_git", "success", <<>>)
       \/ /\ response' = Response("fetch_terraform_from_git", "error", <<>>)
          /\ UNCHANGED session_state
    /\ pc' = "exiting"
    /\ UNCHANGED <<git_repository, temp_dirs>>
    /\ FetchFrame

\* __exit__: cleanup removes the temporary directory; the tool returns
ExitClone ==
    /\ pc = "exiting"
    /\ temp_dirs' = IF git_repository[1].temp_dir # <<>>
                    THEN temp_dirs \ {git_repository[1].temp_dir[1]}
                    ELSE temp_dirs
    /\ git_repository' = <<>>
    /\ pc' = "idle"
    /\ UNCHANGED <<session_state, response>>
    /\ FetchFrame

FetchNext == EnterClone \/ ParseInClone \/ ExitClone

SpecFetch == FetchInit /\ [][FetchNext]_vars

----------------------------------------------------------------------------
(* A CommandExecutor driven by a caller over one command list *)

\* the command lists the generator builds in the sessions above
GeneratedCommandLists ==
    { GenerateCliCommands(
          Compare(target.resource_group, target.resources,
                  GetSupportedResources(
                      ParseResources(SourceAt(git_url), DeclaredVariables, TfVars)),
                  hash_order),
          target.subscription_id) :
        target \in ScanTargets, git_url \in GitUrls, hash_order \in HashOrders }

\* a command whose parameter key was set by hand after generation
EditCommand(cmd, key, value) ==
    LET parameters == DictSet(cmd.parameters, key, value)
    IN [cmd EXCEPT !.parameters = parameters,
                   !.command = BuildCommandString(<<Head(cmd.command)>>, parameters)]

\* a generated list free of unresolved expressions whose first command was given
\* a location by hand
EditedCommandLists ==
    { [cmds EXCEPT ![1] = EditCommand(cmds[1], <<"--location">>, VarRef("loc").s)] :
        cmds \in {l \in GeneratedCommandLists :
                     /\ l # <<>>
                     /\ \A n \in 1..Len(l) :
                            \A i \in 1..Len(l[n].parameters.items) :
                                ~Contains(l[n].parameters.items[i], "${")} }

ExecutorCommandLists == GeneratedCommandLists \cup EditedCommandLists

ExecutorInit ==
    /\ EngineIdle
    /\ session_state = EmptySession
    /\ exec_commands \in {<<cmds>> : cmds \in ExecutorCommandLists}
    /\ \E dry_run \in BOOLEAN : executor = CommandExecutor(dry_run)
    /\ request = NoRequest
    /\ response = NoResponse
    /\ shell = <<>>

\* executor.set_approval(command_index, approved)
CallSetApproval ==
    /\ \E command_index \in 0..MaxIndex, approved \in BOOLEAN :
           /\ executor' = SetApproval(executor, command_index, approved)
           /\ request' = Request(<<command_index>>, executor.dry_run, approved)
    /\ response' = Response("set_approval", "none", <<>>)
    /\ shell' = <<>>
    /\ UNCHANGED <<engine_vars, session_state, exec_commands>>

\* executor.approve_all(commands)
CallApproveAll ==
    /\ executor' = ApproveAll(executor, exec_commands[1])
    /\ request' = Request(<<>>, executor.dry_run, TRUE)
    /\ response' = Response("approve_all", "none", <<>>)
    /\ shell' = <<>>
    /\ UNCHANGED <<engine_vars, session_state, exec_commands>>

\* executor.execute(commands)
CallExecute ==
    /\ \E outcomes \in Outcomes(executor, exec_commands[1]) :
           response' = Response("execute", "completed",
                           Execute(executor, exec_commands[1], outcomes))
    /\ shell' = ShellCalls(executor, exec_commands[1])
    /\ request' = Request(<<>>, executor.dry_run, FALSE)
    /\ UNCHANGED <<engine_vars, session_state, executor_vars>>

\* executor.execute_single(commands[i], approved)
CallExecuteSingle ==
    /\ \E i \in 0..(Len(exec_commands[1]) - 1), approved \in BOOLEAN,
          outcome \in {"success", "failed"} :
           LET command == exec_commands[1][i + 1]
               branch == ExecuteSingleBranch(executor, approved)
           IN /\ request' = Request(<<i>>, executor.dry_run, approved)
              /\ response' = Response("execute_single", "completed",
                                 <<ExecutionResult(command,
                                       IF branch = "run" THEN outcome ELSE branch)>>)
              /\ shell' = IF branch = "run"
                          THEN <<[index |-> i, text |-> ShellText(command)]>>
                          ELSE <<>>
    /\ UNCHANGED <<engine_vars, session_state, executor_vars>>

\* execute_with_approval(commands, approved_indices, dry_run): a fresh executor
CallExecuteWithApproval ==
    /\ \E approved_indices \in IndexLists, dry_run \in BOOLEAN :
           LET fresh == ApprovalExecutor(approved_indices, dry_run)
           IN /\ executor' = fresh
              /\ request' = Request(approved_indices, dry_run, FALSE)
              /\ shell' = ShellCalls(fresh, exec_commands[1])
              /\ \E outcomes \in Outcomes(fresh, exec_commands[1]) :
                     response' = Response("execute_with_approval", "completed",
                                     Execute(fresh, exec_commands[1], outcomes))
    /\ UNCHANGED <<engine_vars, session_state, exec_commands>>

\* execute_commands(command_indices, dry_run) over the list as the stored commands
CallExecuteCommands ==
    /\ \E command_indices \in IndexLists, dry_run \in BOOLEAN :
           /\ executor' =
                  IF ExecuteCommandsBranch(exec_commands, command_indices) = "completed"
                  THEN ApprovalExecutor(command_indices, dry_run)
                  ELSE executor
           /\ request' = Request(command_indices, dry_run, FALSE)
           /\ shell' = ExecuteCommandsShell(exec_commands, command_indices, dry_run)
           /\ \E outcomes \in ExecuteCommandsOutcomes(exec_commands, command_indices,
                                  dry_run) :
                  response' = ExecuteCommandsResponse(exec_commands, command_indices,
                                  dry_run, outcomes)
    /\ UNCHANGED <<engine_vars, session_state, exec_commands>>

ExecutorNext ==
    \/ CallSetApproval
    \/ CallApproveAll
    \/ CallExecute
    \/ CallExecuteSingle
    \/ CallExecuteWithApproval
    \/ CallExecuteCommands

SpecExecutor == ExecutorInit /\ [][ExecutorNext]_vars

----------------------------------------------------------------------------
(* Vocabulary of the properties *)

Compared == pc \in {"compared", "generated"}
Result == comparison_result[1]
Differences == Result.differences
MissingInAzure == DifferencesOfType(Result, "missing_in_azure")
MissingInTf == DifferencesOfType(Result, "missing_in_terraform")
Drifted == DifferencesOfType(Result, "property_drift")

SeqRange(s) == {s[i] : i \in 1..Len(s)}

\* the derived name of a declarative resource
DerivedName(tf) == IF tf.resource_name # <<>> THEN tf.resource_name ELSE tf.name

\* the derived name carries the unresolved marker
UnresolvedName(tf) == Contains(DerivedName(tf), "<variable:")

\* the name field of a raw block references a variable with no override and no default
RawNameUnresolved(block) ==
    /\ HasKey(block.config, <<"name">>)
    /\ LET name == DictAt(block.config, <<"name">>)
       IN /\ name.k = "str"
          /\ IsVarRef(name.s)
          /\ ~HasKey(TfVars, VarName(name.s))
          /\ DictGet(DeclaredVariables, VarName(name.s)) = None

\* same canonical type, names equal ignoring letter case
SameIdentity(tf, live) ==
    /\ live.resource_type = TERRAFORM_TO_AZURE_TYPE(tf.terraform_type)
    /\ Lower(live.name) = Lower(DerivedName(tf))

\* the (canonical type, lower-cased name) key of a record of either side
LiveKey(live) == <<live.resource_type, Lower(live.name)>>
TfKey(tf) == <<TERRAFORM_TO_AZURE_TYPE(tf.terraform_type), Lower(DerivedName(tf))>>

ResolvedTf == {i \in 1..Len(terraform_resources) : ~UnresolvedName(terraform_resources[i])}

HasLiveMatch(tf) == \E j \in 1..Len(azure_resources) : SameIdentity(tf, azure_resources[j])
HasTfMatch(live) == \E i \in ResolvedTf : SameIdentity(terraform_resources[i], live)

\* the last live record, in input order, with the key of `live`
LastWithKey(live) ==
    azure_resources[CHOOSE j \in 1..Len(azure_resources) :
        /\ LiveKey(azure_resources[j]) = LiveKey(live)
        /\ \A m \in (j + 1)..Len(azure_resources) :
               LiveKey(azure_resources[m]) # LiveKey(live)]

\* a str carries an unresolved variable expression or marker
UnresolvedText(s) == Contains(s, "${") \/ Contains(s, "<variable:")

RECURSIVE UnresolvedInside(_)
\* a value is, or holds at any depth, an unresolved variable expression
UnresolvedInside(value) ==
    CASE value.k = "str" -> UnresolvedText(value.s)
      [] value.k \in {"list", "dict"} ->
             \E i \in 1..Len(value.items) : UnresolvedInside(value.items[i])
      [] OTHER -> FALSE

\* command cmd was built from difference diff
DerivedFrom(cmd, diff) ==
    /\ cmd.resource_name = diff.resource_name
    /\ cmd.resource_type = diff.resource_type
    /\ \/ cmd.action = "create" /\ diff.difference_type = "missing_in_azure"
       \/ cmd.action = "update" /\ diff.difference_type = "property_drift"

RECURSIVE DerivedInOrder(_, _)
\* the commands are built from distinct differences, in the order of the differences
DerivedInOrder(cmds, diffs) ==
    IF cmds = <<>> THEN TRUE
    ELSE IF diffs = <<>> THEN FALSE
    ELSE IF DerivedFrom(Head(cmds), Head(diffs))
         THEN DerivedInOrder(Tail(cmds), Tail(diffs))
         ELSE DerivedInOrder(cmds, Tail(diffs))

----------------------------------------------------------------------------
(* Properties *)

\* C1: every generated command is a create or an update, never a delete; the
\* commands are built one each from distinct MISSING_IN_AZURE (create) and
\* PROPERTY_DRIFT (update) differences, none from a MISSING_IN_TERRAFORM one, so
\* there are at most |missing_in_azure| + |drifted| of them.
C1_CreateOrUpdateOnly ==
    pc = "generated" =>
        /\ \A i \in 1..Len(commands) : commands[i].action \in {"create", "update"}
        /\ DerivedInOrder(commands, Differences)
        /\ Len(commands) <= Len(MissingInAzure) + Len(Drifted)
        /\ (Len(MissingInTf) = Len(Differences) => commands = <<>>)

\* C1 witness: a result with a live-only record, a create and an update
C1_Witness ==
    /\ pc = "generated"
    /\ MissingInTf # <<>>
    /\ \E i, j \in 1..Len(commands) :
           commands[i].action = "create" /\ commands[j].action = "update"

\* C2: no parameter value and no command text of a generated command holds an
\* unresolved variable expression or marker.
C2_NoUnresolvedParameter ==
    pc = "generated" =>
        \A i \in 1..Len(commands) :
            /\ ~UnresolvedText(commands[i].command)
            /\ \A p \in 1..Len(commands[i].parameters.items) :
                   ~UnresolvedText(commands[i].parameters.items[p])

\* C3: a declarative resource with a resolved name is paired exactly when a live
\* record has its canonical type and its name ignoring letter case: it is
\* reported MISSING_IN_AZURE exactly when there is no such record, a live record
\* stays off the MISSING_IN_TERRAFORM list exactly when such a resource exists, and
\* the two sides of every PROPERTY_DRIFT pair have that identity.
C3_PairedByTypeAndName ==
    Compared =>
        /\ \A i \in ResolvedTf :
               HasLiveMatch(terraform_resources[i])
               <=> ~\E d \in SeqRange(MissingInAzure) :
                        d.terraform_resource = <<terraform_resources[i]>>
        /\ \A j \in 1..Len(azure_resources) :
               HasTfMatch(azure_resources[j])
               <=> ~\E d \in SeqRange(MissingInTf) :
                        LiveKey(d.azure_resource[1]) = LiveKey(azure_resources[j])
        /\ \A d \in SeqRange(Drifted) :
               /\ d.azure_resource[1] \in SeqRange(azure_resources)
               /\ d.terraform_resource[1] \in SeqRange(terraform_resources)
               /\ SameIdentity(d.terraform_resource[1], d.azure_resource[1])

\* C3 witness: a pair whose names differ in letter case, beside a declarative
\* resource and a live record of the same name and different types
C3_Witness ==
    /\ Compared
    /\ \E d \in SeqRange(Drifted) :
           d.azure_resource[1].name # DerivedName(d.terraform_resource[1])
    /\ \E i \in ResolvedTf, j \in 1..Len(azure_resources) :
           /\ Lower(azure_resources[j].name) = Lower(DerivedName(terraform_resources[i]))
           /\ ~SameIdentity(terraform_resources[i], azure_resources[j])

\* the number of differences of the result that satisfy Test
CountDiffs(diffs, Test(_)) == Cardinality({n \in 1..Len(diffs) : Test(diffs[n])})

\* the keys of the live records, and of the declarative resources with a resolved name
LiveKeys == {LiveKey(azure_resources[j]) : j \in 1..Len(azure_resources)}
ResolvedTfKeys == {TfKey(terraform_resources[i]) : i \in ResolvedTf}

\* C4, live side: of the live records that share a key only the last one is
\* present; each key is answered once, with the last record
C4_LiveDuplicatesCollapse ==
    Compared =>
        /\ \A d \in SeqRange(MissingInTf) \cup SeqRange(Drifted) :
               d.azure_resource[1] = LastWithKey(d.azure_resource[1])
        /\ \A key \in LiveKeys :
               CountDiffs(MissingInTf, LAMBDA d : LiveKey(d.azure_resource[1]) = key) <= 1

\* C4, declarative side: the declarative resources that share a key yield together
\* one difference or one matched-count increment
C4_TfDuplicatesCollapse ==
    Compared =>
        Result.matched_count + Len(MissingInAzure) + Len(Drifted)
            = Cardinality(ResolvedTfKeys)

\* C4: duplicate keys collapse to the last-inserted record on each side.
C4_DuplicatesCollapse == C4_LiveDuplicatesCollapse /\ C4_TfDuplicatesCollapse

\* C5: a declarative resource whose name references a variable with neither
\* override nor default stays in the parsed resources and is left out of the
\* ComparisonResult: no difference carries it, the differences and the matched
\* count account for the resolved resources alone, and a live record it alone
\* could match is reported MISSING_IN_TERRAFORM.
C5_UnresolvedNameExcluded ==
    pc # "loaded" =>
        /\ Len(terraform_resources) = Len(tf_blocks)
        /\ \A i \in 1..Len(tf_blocks) :
               RawNameUnresolved(tf_blocks[i]) =>
                   /\ terraform_resources[i].name = tf_blocks[i].name
                   /\ terraform_resources[i].terraform_type = tf_blocks[i].terraform_type
                   /\ i \notin ResolvedTf
                   /\ Compared =>
                          \A d \in SeqRange(Differences) :
                              d.terraform_resource # <<terraform_resources[i]>>
        /\ Compared =>
               /\ Result.matched_count + Len(MissingInAzure) + Len(Drifted)
                      = Cardinality(ResolvedTf)
               /\ \A j \in 1..Len(azure_resources) :
                      ~HasTfMatch(azure_resources[j]) =>
                          \E d \in SeqRange(MissingInTf) :
                              LiveKey(d.azure_resource[1]) = LiveKey(azure_resources[j])

\* C5 witness: a compared source with an unresolved name beside a resolved one and
\* a live virtual network
C5_Witness ==
    /\ Compared
    /\ \E i \in 1..Len(tf_blocks) : RawNameUnresolved(tf_blocks[i])
    /\ ResolvedTf # {}
    /\ \E j \in 1..Len(azure_resources) :
           azure_resources[j].resource_type = "Microsoft.Network/virtualNetworks"

\* C6 as stated: every live record that no declarative resource matched yields
\* exactly one MISSING_IN_TERRAFORM difference of its own, every matched one none.
C6_EveryLiveRecord ==
    Compared =>
        \A j \in 1..Len(azure_resources) :
            CountDiffs(MissingInTf,
                       LAMBDA d : d.azure_resource = <<azure_resources[j]>>)
            = IF HasTfMatch(azure_resources[j]) THEN 0 ELSE 1

\* C6: each declarative resource with a resolved name and no live match yields
\* exactly one MISSING_IN_AZURE difference, of risk MEDIUM; each (type,
\* lower-cased name) key of the live records that no declarative resource
\* matched yields exactly one MISSING_IN_TERRAFORM difference, of risk LOW, which
\* carries the last live record of that key; nothing else yields these kinds.
C6_MissingBothWays ==
    Compared =>
        /\ \A i \in ResolvedTf :
               CountDiffs(MissingInAzure,
                          LAMBDA d : d.terraform_resource = <<terraform_resources[i]>>)
               = IF HasLiveMatch(terraform_resources[i]) THEN 0
                 ELSE Cardinality({m \in 1..Len(terraform_resources) :
                                      terraform_resources[m] = terraform_resources[i]})
        /\ \A d \in SeqRange(MissingInAzure) :
               /\ d.risk_level = "medium"
               /\ d.property_differences = <<>>
               /\ \E i \in ResolvedTf : d.terraform_resource = <<terraform_resources[i]>>
        /\ \A j \in 1..Len(azure_resources) :
               CountDiffs(MissingInTf,
                          LAMBDA d : d.azure_resource = <<LastWithKey(azure_resources[j])>>)
               = IF HasTfMatch(azure_resources[j]) THEN 0 ELSE 1
        /\ \A d \in SeqRange(MissingInTf) :
               /\ d.risk_level = "low"
               /\ d.property_differences = <<>>
               /\ d.terraform_resource = <<>>
               /\ d.azure_resource[1] \in SeqRange(azure_resources)
        /\ Len(MissingInTf) = Cardinality({key \in LiveKeys :
               \A i \in ResolvedTf : TfKey(terraform_resources[i]) # key})

\* C6 witness: a result with a matched pair, a declarative-only resource and a
\* live-only record
C6_Witness ==
    /\ Compared
    /\ MissingInAzure # <<>>
    /\ MissingInTf # <<>>
    /\ Result.matched_count + Len(Drifted) > 0

\* the stored comparison result is the comparison of the stored inventory with
\* the stored Terraform config
ResultIsCurrent ==
    /\ session_state.azure_resources # <<>>
    /\ session_state.terraform_config # <<>>
    /\ \E hash_order \in HashOrders :
           session_state.comparison_result[1] =
               Compare(session_state.resource_group[1],
                       session_state.azure_resources[1],
                       GetSupportedResources(
                           session_state.terraform_config[1].resources),
                       hash_order)

\* the stored command list is the one generated from the stored comparison
\* result, under some subscription
CommandsAreCurrent ==
    /\ session_state.comparison_result # <<>>
    /\ \E target \in ScanTargets :
           session_state.commands[1] =
               GenerateCliCommands(session_state.comparison_result[1],
                                   target.subscription_id)

\* C7: after any sequence of tool calls a stored comparison result is the one
\* computed from the stored inventory and Terraform config, and a stored command
\* list is the one computed from the stored comparison result.
C7_NoStaleState ==
    /\ session_state.comparison_result # <<>> => ResultIsCurrent
    /\ session_state.commands # <<>> => CommandsAreCurrent

\* the indices a call of the executor gave to _execute_command
ShellIndices == {shell[n].index : n \in 1..Len(shell)}

\* the last call went through CommandExecutor.execute
ThroughExecute ==
    \/ response.tool \in {"execute", "execute_with_approval"}
    \/ response.tool = "execute_commands" /\ response.status = "completed"

\* C8: a shell command is run for index i only if i is approved, not rejected
\* and dry-run is off; through CommandExecutor.execute a rejected command yields
\* REJECTED, an unapproved one PENDING_APPROVAL and, under dry-run, an approved
\* one SKIPPED, none of them run; through the approval entry points only indices
\* the caller named are run; execute_single runs only an approved command with
\* dry-run off; execute_commands with no indices runs nothing and returns
\* pending_approval.
C8_RunOnlyApproved ==
    /\ ThroughExecute =>
           /\ \A i \in ShellIndices :
                  /\ i \in executor.approved_commands
                  /\ i \notin executor.rejected_commands
                  /\ ~executor.dry_run
    /\ response.tool \in {"execute", "execute_with_approval"} =>
           /\ Len(response.results) = Len(exec_commands[1])
           /\ \A i \in 0..(Len(exec_commands[1]) - 1) :
                  LET status == response.results[i + 1].status
                  IN /\ i \in executor.rejected_commands => status = "rejected"
                     /\ i \notin executor.rejected_commands
                           /\ i \notin executor.approved_commands
                           => status = "pending_approval"
                     /\ i \in executor.approved_commands
                           /\ i \notin executor.rejected_commands
                           /\ executor.dry_run
                           => status = "skipped"
                     /\ status \in {"rejected", "pending_approval", "skipped"}
                           => i \notin ShellIndices
    /\ response.tool \in {"execute_with_approval", "execute_commands"} =>
           \A i \in ShellIndices :
               \E m \in 1..Len(request.command_indices) :
                   request.command_indices[m] = i
    /\ response.tool = "execute_single" /\ shell # <<>> =>
           request.approved /\ ~executor.dry_run
    /\ response.tool = "execute_commands" /\ request.command_indices = <<>> =>
           shell = <<>> /\ response.status = "pending_approval"

\* C8 witness: one call of execute ran a command and held back a rejected one
C8_Witness ==
    /\ response.tool = "execute"
    /\ shell # <<>>
    /\ \E n \in 1..Len(response.results) : response.results[n].status = "rejected"

\* C9: no command given to _execute_command has a parameter value that holds an
\* unresolved variable expression.
C9_NoUnresolvedRun ==
    \A n \in 1..Len(shell) :
        LET command == exec_commands[1][shell[n].index + 1]
        IN \A p \in 1..Len(command.parameters.items) :
               ~UnresolvedText(command.parameters.items[p])

\* every declared tag is on the live record, keys compared ignoring letter case,
\* with an equal value
TagsCovered(tf, live) ==
    LET tf_tags == LowerKeys(OrEmpty(DictGetOr(tf.config, <<"tags">>, EmptyDict)),
                             EmptyDict)
        live_tags == LowerKeys(OrEmpty(live.tags), EmptyDict)
    IN \A i \in 1..Len(tf_tags.keys) :
           /\ HasKey(live_tags, tf_tags.keys[i])
           /\ DictAt(live_tags, tf_tags.keys[i]) = tf_tags.items[i]

\* C11: a pair whose declared tags are all on the live record with equal values
\* gets no PropertyDifference at the path tags or below it, whatever tags the
\* live record has beside them.
C11_LiveOnlyTagsIgnored ==
    Compared =>
        \A d \in SeqRange(Drifted) :
            TagsCovered(d.terraform_resource[1], d.azure_resource[1]) =>
                \A n \in 1..Len(d.property_differences) :
                    Head(d.property_differences[n].property_path) # "tags"

\* the declarative resources, by position, that have a resolved name and a live match
PairedTf == {i \in ResolvedTf : HasLiveMatch(terraform_resources[i])}

\* the live record compare pairs the declarative resource with
PairOf(tf) ==
    LastWithKey(CHOOSE live \in SeqRange(azure_resources) : SameIdentity(tf, live))

\* the property comparison of a pair finds no difference
NoPropertyDifference(tf) ==
    \A hash_order \in HashOrders : CompareProperties(tf, PairOf(tf), hash_order) = <<>>

\* C12: a matched pair whose property comparison finds nothing adds one to
\* matched_count and no ResourceDifference; one whose comparison finds differences
\* adds exactly one PROPERTY_DRIFT difference carrying all of them and nothing to
\* matched_count; property_differences is non-empty exactly for PROPERTY_DRIFT.
C12_MatchedOrDrifted ==
    Compared =>
        /\ Result.matched_count =
               Cardinality({i \in PairedTf : NoPropertyDifference(terraform_resources[i])})
        /\ Len(Drifted) =
               Cardinality({i \in PairedTf : ~NoPropertyDifference(terraform_resources[i])})
        /\ \A i \in PairedTf :
               LET tf == terraform_resources[i]
                   same == {m \in PairedTf : terraform_resources[m] = tf}
               IN CountDiffs(Drifted, LAMBDA d : d.terraform_resource = <<tf>>)
                  = IF NoPropertyDifference(tf) THEN 0 ELSE Cardinality(same)
        /\ \A d \in SeqRange(Drifted) :
               /\ d.property_differences # <<>>
               /\ d.azure_resource = <<PairOf(d.terraform_resource[1])>>
               /\ \E hash_order \in HashOrders :
                      d.property_differences =
                          CompareProperties(d.terraform_resource[1], d.azure_resource[1],
                                            hash_order)
        /\ \A d \in SeqRange(Differences) :
               d.property_differences # <<>> <=> d.difference_type = "property_drift"

\* C12 witness: a result with a pair counted as matched and a drifted pair that
\* carries several property differences
C12_Witness ==
    /\ Compared
    /\ Result.matched_count > 0
    /\ \E d \in SeqRange(Drifted) : Len(d.property_differences) >= 2

\* the update command built from PROPERTY_DRIFT difference diff
UpdateFor(cmd, diff) ==
    /\ cmd.action = "update"
    /\ cmd.resource_name = diff.resource_name
    /\ cmd.resource_type = diff.resource_type
    /\ cmd.description[2] = diff.terraform_type[1]

\* the leaf field name of a property difference has a CLI parameter
HasCliParameter(diff, prop_diff) ==
    HasKey(CLI_PROPERTY_MAPPINGS(diff.terraform_type[1]),
           LastPart(prop_diff.property_path))

\* a property difference with a CLI parameter and a declared value that is not
\* null and holds no unresolved expression at any depth
Updatable(diff, prop_diff) ==
    /\ HasCliParameter(diff, prop_diff)
    /\ prop_diff.terraform_value # None
    /\ ~UnresolvedInside(prop_diff.terraform_value)

\* C13: a PROPERTY_DRIFT difference gets an update command if and only if one of
\* its property differences has a CLI parameter and a resolved, non-null declared
\* value, whether or not the generator was given a subscription id.
C13_UpdateIffUpdatable ==
    pc = "generated" =>
        \A d \in SeqRange(Drifted) :
            /\ (\E n \in 1..Len(d.property_differences) :
                    Updatable(d, d.property_differences[n]))
               => \E i \in 1..Len(commands) : UpdateFor(commands[i], d)
            /\ (\E i \in 1..Len(commands) : UpdateFor(commands[i], d))
               => \E n \in 1..Len(d.property_differences) :
                      /\ HasCliParameter(d, d.property_differences[n])
                      /\ d.property_differences[n].terraform_value # None

\* the last part of the property path of each difference
LeafNames(property_differences) ==
    { LastPart(property_differences[n].property_path) :
        n \in 1..Len(property_differences) }

\* C15: a drifted resource is HIGH when the leaf name of any of its property
\* differences is in the high-risk set, wherever that difference stands in the
\* list; otherwise MEDIUM when a leaf name is in the medium-risk set; otherwise
\* LOW.
C15_HighRiskDominates ==
    Compared =>
        \A d \in SeqRange(Drifted) :
            LET leaves == LeafNames(d.property_differences)
            IN d.risk_level =
                   IF leaves \cap { <<"network_rules">>, <<"access_policies">>,
                                    <<"security_rules">>, <<"admin_username">>,
                                    <<"admin_password">>, <<"sku_name">>, <<"size">> } # {}
                   THEN "high"
                   ELSE IF leaves \cap { <<"location">>, <<"address_space">>,
                                         <<"subnets">>, <<"vm_size">> } # {}
                        THEN "medium"
                        ELSE "low"

\* C15 witness: a drifted resource whose first difference is its location and a
\* later one its size, classified HIGH; and one classified MEDIUM, one LOW
C15_Witness ==
    /\ Compared
    /\ \E d \in SeqRange(Drifted) :
           /\ d.risk_level = "high"
           /\ d.property_differences[1].property_path = <<"location">>
           /\ \E n \in 2..Len(d.property_differences) :
                  d.property_differences[n].property_path = <<"size">>
    /\ \E d \in SeqRange(Drifted) : d.risk_level # "high"

\* the create command of a MISSING_IN_AZURE difference
CreateFor(cmd, diff) ==
    /\ cmd.action = "create"
    /\ cmd.resource_name = diff.resource_name
    /\ cmd.resource_type = diff.resource_type
    /\ cmd.description[2] = diff.terraform_type[1]

\* the text of a declared field, or the default when the field is absent
DeclaredOr(config, key, default) ==
    IF HasKey(config, key) THEN PyStr(DictAt(config, key)) ELSE default

\* C16: every create command for an azurerm_storage_account has one --sku
\* parameter, '<tier>_<replication>', of the declared account_tier (or Standard
\* when absent) and the declared account_replication_type (or LRS when absent).
C16_StorageSkuComposite ==
    pc = "generated" =>
        \A d \in SeqRange(MissingInAzure) :
            d.terraform_type = <<"azurerm_storage_account">> =>
                \A i \in 1..Len(commands) :
                    CreateFor(commands[i], d) =>
                        /\ Cardinality({p \in 1..Len(commands[i].parameters.keys) :
                               commands[i].parameters.keys[p] = <<"--sku">>}) = 1
                        /\ DictAt(commands[i].parameters, <<"--sku">>)
                             = DeclaredOr(d.terraform_resource[1].config,
                                          <<"account_tier">>, <<"Standard">>)
                               \o <<"_">>
                               \o DeclaredOr(d.terraform_resource[1].config,
                                             <<"account_replication_type">>, <<"LRS">>)

\* the variables with an override, and those with a declared default
Overridden == { <<"region">>, <<"https">> }
Defaulted == { <<"loc">>, <<"region">> }

\* the name v of a string that is exactly "${var.v}"
ReferenceTo(raw, v) == raw = Str(<<"${", "var.">> \o v \o <<"}">>)

\* out is what the string raw resolves to
ScalarResolved(raw, out) ==
    IF \E v \in Overridden : ReferenceTo(raw, v)
    THEN \E v \in Overridden :
             ReferenceTo(raw, v) /\ out = DictAt(TfVars, v)
    ELSE IF \E v \in Defaulted : ReferenceTo(raw, v)
         THEN \E v \in Defaulted :
                  ReferenceTo(raw, v) /\ out = DictAt(DeclaredVariables, v)
         ELSE out = raw

RECURSIVE ResolvedFrom(_, _)
\* out is raw with every string resolved, element by element at any depth
ResolvedFrom(raw, out) ==
    CASE raw.k = "str" -> ScalarResolved(raw, out)
      [] raw.k \in {"list", "dict"} ->
             /\ out.k = raw.k
             /\ out.keys = raw.keys
             /\ Len(out.items) = Len(raw.items)
             /\ \A i \in 1..Len(raw.items) : ResolvedFrom(raw.items[i], out.items[i])
      [] OTHER -> out = raw

\* C17: a string that is exactly a reference to a variable resolves to the
\* override when there is one, otherwise to the declared default when there is
\* one, otherwise it stays the original expression; sequences and mappings are
\* resolved element by element at any depth.
C17_ResolutionPrecedence ==
    pc # "loaded" =>
        /\ Len(terraform_resources) = Len(tf_blocks)
        /\ \A i \in 1..Len(tf_blocks) :
               ResolvedFrom(tf_blocks[i].config, terraform_resources[i].config)

\* C17 witness: a parsed source with a reference resolved to the override of a
\* variable that has a default too and an unresolved reference kept inside a
\* list, and with a reference resolved to a default and an unresolved one kept
\* inside a mapping
C17_Witness ==
    /\ pc = "parsed"
    /\ \E i \in 1..Len(terraform_resources) :
           LET config == terraform_resources[i].config
           IN /\ tf_blocks[i] = BlockVnetCore
              /\ DictAt(config, <<"location">>) = Str(<<"westus2">>)
              /\ DictAt(config, <<"address_space">>).items[2] = VarRef("cidr")
    /\ \E i \in 1..Len(terraform_resources) :
           LET config == terraform_resources[i].config
           IN /\ tf_blocks[i] = BlockStorageA
              /\ DictAt(config, <<"location">>) = Str(<<"eastus">>)
              /\ DictAt(DictAt(config, <<"tags">>), <<"E", "nv">>) = VarRef("env")

\* the call that has just returned is a typed failure that changed nothing
FailedWithoutEffect ==
    /\ response'.status = "error"
    /\ shell' = <<>>
    /\ session_state' = session_state

\* C18: compare_azure_with_terraform without a stored inventory or without a
\* stored Terraform configuration, generate_alignment_commands or
\* generate_report without a stored comparison, and execute_commands without
\* stored commands each return status 'error', run no command and leave the
\* session state as it was.
C18_PreconditionFailures ==
    [][ /\ ( /\ response'.tool = "compare_azure_with_terraform"
              /\ \/ session_state.azure_resources = <<>>
                 \/ session_state.terraform_config = <<>> )
            => FailedWithoutEffect
        /\ ( /\ response'.tool \in {"generate_alignment_commands", "generate_report"}
              /\ session_state.comparison_result = <<>> )
            => FailedWithoutEffect
        /\ ( /\ response'.tool = "execute_commands"
              /\ session_state.commands = <<>> )
            => FailedWithoutEffect ]_vars

\* C18 witness: execute_commands was asked to run commands in a session that has
\* a comparison but no commands, and returned an error
C18_Witness ==
    /\ response.tool = "execute_commands"
    /\ response.status = "error"
    /\ request.command_indices # <<>>
    /\ ~request.dry_run
    /\ session_state.comparison_result # <<>>
    /\ session_state.commands = <<>>
    /\ shell = <<>>

RECURSIVE Ascending(_)
\* the numbers of S in increasing order
Ascending(S) ==
    IF S = {} THEN <<>>
    ELSE LET least == CHOOSE i \in S : \A j \in S : i <= j
         IN <<least>> \o Ascending(S \ {least})

\* the indices the last call named
Requested ==
    {request.command_indices[m] : m \in 1..Len(request.command_indices)}

ResourceTypes ==
    << "Microsoft.Storage/storageAccounts", "Microsoft.Network/virtualNetworks",
       "Microsoft.Network/networkSecurityGroups", "Microsoft.Compute/virtualMachines",
       "Microsoft.KeyVault/vaults" >>

\* the scan steps in order, and the place of the current one (6: scan returned)
ScanSteps ==
    << "scan_storage_accounts", "scan_virtual_networks",
       "scan_network_security_groups", "scan_virtual_machines", "scan_key_vaults" >>
ScanPlace ==
    IF \E k \in 1..5 : ScanSteps[k] = pc
    THEN CHOOSE k \in 1..5 : ScanSteps[k] = pc
    ELSE 6

\* the inventory holds, type after type in the fixed order, all the records of
\* each type queried so far whose query did not raise
PartialInventory ==
    /\ \A k \in 1..5 :
           (k < ScanPlace /\ ResourceTypes[k] \notin scan_failed) =>
               OfType(azure_resources, ResourceTypes[k])
                   = OfType(group_records, ResourceTypes[k])
    /\ \A i, j \in 1..Len(azure_resources) :
           i < j =>
               \E k, l \in 1..5 :
                   /\ k <= l
                   /\ azure_resources[i].resource_type = ResourceTypes[k]
                   /\ azure_resources[j].resource_type = ResourceTypes[l]
    /\ \A i \in 1..Len(azure_resources) :
           \E n \in 1..Len(group_records) : azure_resources[i] = group_records[n]

\* C20: whatever queries raise, the scan is at one of its steps or has returned,
\* its inventory holds all the records of every type whose query succeeded, in
\* the fixed type order, and the caller compares that partial inventory with
\* the Terraform source.
C20_ScanSurvivesFailures ==
    /\ pc \in SeqRange(ScanSteps) \cup {"loaded", "parsed", "compared"}
    /\ PartialInventory
    /\ pc = "compared" =>
           /\ Result.azure_resource_count = Len(azure_resources)
           /\ \A d \in SeqRange(Differences) :
                  d.azure_resource # <<>> =>
                      \E i \in 1..Len(azure_resources) :
                          d.azure_resource = <<azure_resources[i]>>

\* C20 witness: the query of one type raised with a record of that type left
\* out, a record of a type queried later is in the inventory, and the
\* comparison was made
C20_Witness ==
    /\ pc = "compared"
    /\ \E k, l \in 1..5 :
           /\ k < l
           /\ ResourceTypes[k] \in scan_failed
           /\ OfType(group_records, ResourceTypes[k]) # <<>>
           /\ OfType(azure_resources, ResourceTypes[k]) = <<>>
           /\ ResourceTypes[l] \notin scan_failed
           /\ OfType(azure_resources, ResourceTypes[l]) # <<>>

\* C21: a scan of a resource group that does not exist returns an error and
\* stores nothing, so the session never holds an inventory, a comparison or
\* commands for that group.
C21_MissingGroupIsFatal ==
    /\ (response.tool = "scan_resource_group"
           /\ session_state.resource_group = <<MissingResourceGroup>>)
          => response.status = "error"
    /\ session_state.resource_group # <<MissingResourceGroup>>
    /\ session_state.comparison_result # <<>> =>
           session_state.comparison_result[1].resource_group # MissingResourceGroup
    /\ session_state.commands # <<>> =>
           \A i \in 1..Len(session_state.commands[1]) :
               DictAt(session_state.commands[1][i].parameters, <<"--resource-group">>)
                   # MissingResourceGroup

\* the files of the directory that hcl2.load can parse
WellFormed == SelectSeq(tf_files, LAMBDA file : ~file.malformed)

\* C22: parse_directory returns a configuration that holds the resources of
\* every well-formed file of the directory, resolved with the variables of
\* those files, whether or not another file of the directory is malformed.
C22_MalformedFileSkipped ==
    pc # "loaded" =>
        /\ pc = "parsed"
        /\ Len(terraform_resources) = Len(CollectResources(WellFormed))
        /\ \A i \in 1..Len(terraform_resources) :
               /\ terraform_resources[i].terraform_type
                    = CollectResources(WellFormed)[i].terraform_type
               /\ terraform_resources[i].name = CollectResources(WellFormed)[i].name

\* C23: another run of compare on the same inputs, whatever order the
\* interpreter iterates the set of tag keys in, gives the same differences in
\* the same order, each with the same property differences in the same order.
C23_CompareDeterministic ==
    Compared =>
        \A hash_order \in HashOrders :
            Compare(EngineResourceGroup, azure_resources, terraform_resources,
                    hash_order).differences = Differences

\* a str after lower-casing and trimming
Trimmed(s) == Strip(Lower(s))

RECURSIVE SameNormalized(_, _)
\* a and b are the same value up to letter case, surrounding blanks and the order
\* of the elements of a sequence
SameNormalized(a, b) ==
    CASE a.k = "str" /\ b.k = "str" -> Trimmed(a.s) = Trimmed(b.s)
      [] a.k = "list" /\ b.k = "list" ->
             /\ Len(a.items) = Len(b.items)
             /\ \E p \in Permutations(1..Len(a.items)) :
                    \A i \in 1..Len(a.items) : SameNormalized(a.items[i], b.items[p[i]])
      [] a.k = "dict" /\ b.k = "dict" ->
             /\ KeySet(a) = KeySet(b)
             /\ \A key \in KeySet(a) : SameNormalized(DictAt(a, key), DictAt(b, key))
      [] OTHER -> a = b

\* C24: the normalized comparison of two values says they are equal exactly when the
\* two are the same up to letter case, surrounding blanks and element order
C24_NormalizedEquality ==
    pc = "compared_values" =>
        values_equal = IF SameNormalized(value_pair[1], value_pair[2]) THEN "True"
                       ELSE "False"

\* the parameters that name the resource and its context
IdentityParameters ==
    { <<"--name">>, <<"--resource-group">>, <<"--subscription">> }

\* C14: an update command is built from a PROPERTY_DRIFT difference whose risk
\* level it has, and each of its parameters beyond name, resource group and
\* subscription is the CLI parameter of a differing field and carries that
\* field's declared value, formatted by the kind of the value.
C14_UpdateCarriesDeclared ==
    pc = "generated" =>
        \A i \in 1..Len(commands) :
            commands[i].action = "update" =>
                \E d \in SeqRange(Drifted) :
                    /\ UpdateFor(commands[i], d)
                    /\ commands[i].risk_level = d.risk_level
                    /\ \A p \in 1..Len(commands[i].parameters.keys) :
                           commands[i].parameters.keys[p] \notin IdentityParameters =>
                               \E n \in 1..Len(d.property_differences) :
                                   LET prop_diff == d.property_differences[n]
                                   IN /\ HasCliParameter(d, prop_diff)
                                      /\ DictAt(CLI_PROPERTY_MAPPINGS(d.terraform_type[1]),
                                                LastPart(prop_diff.property_path))
                                           = commands[i].parameters.keys[p]
                                      /\ prop_diff.terraform_value # None
                                      /\ commands[i].parameters.items[p]
                                           = FormatParamValue(prop_diff.terraform_value)

\* C14 witness: an update command of risk HIGH that carries the declared
\* admin_username where the live record has another
C14_Witness ==
    /\ pc = "generated"
    /\ \E i \in 1..Len(commands) :
           /\ commands[i].action = "update"
           /\ commands[i].risk_level = "high"
           /\ HasKey(commands[i].parameters, <<"--admin-username">>)
           /\ DictAt(commands[i].parameters, <<"--admin-username">>) = <<"azureuser">>
           /\ \E d \in SeqRange(Drifted) :
                  \E n \in 1..Len(d.property_differences) :
                      /\ d.property_differences[n].property_path = <<"admin_username">>
                      /\ d.property_differences[n].azure_value = Str(<<"opsuser">>)

\* the path of a difference of the tags: "tags" or "tags.<key>"
IsTagPath(property_path) == property_path # <<>> /\ Head(property_path) = "tags"

\* the flag and its value come from the declared value of a field mapped to the flag
FromMappedField(diff, flag, text) ==
    LET prop_mapping == CLI_PROPERTY_MAPPINGS(diff.terraform_type[1])
        config == diff.terraform_resource[1].config
    IN \E n \in 1..Len(prop_mapping.keys) :
           /\ prop_mapping.items[n] = flag
           /\ HasKey(config, prop_mapping.keys[n])
           /\ DictAt(config, prop_mapping.keys[n]) # None
           /\ text = FormatParamValue(DictAt(config, prop_mapping.keys[n]))

\* C25: every flag of an update command other than the identity parameters is set
\* from the declared value of a field mapped to that flag, and a resource whose
\* only differences are tag differences has an update command of risk LOW
C25_FlagsFromTheirFields ==
    pc = "generated" =>
        \A i \in 1..Len(commands) :
            commands[i].action = "update" =>
                \E d \in SeqRange(Drifted) :
                    /\ UpdateFor(commands[i], d)
                    /\ commands[i].risk_level = d.risk_level
                    /\ \A p \in 1..Len(commands[i].parameters.keys) :
                           commands[i].parameters.keys[p] \notin IdentityParameters =>
                               FromMappedField(d, commands[i].parameters.keys[p],
                                               commands[i].parameters.items[p])
                    /\ (\A n \in 1..Len(d.property_differences) :
                            IsTagPath(d.property_differences[n].property_path))
                           => d.risk_level = "low"

\* the command names the resource group and the subscription of one scan
InScopeOf(cmd, target) ==
    /\ DictAt(cmd.parameters, <<"--resource-group">>) = target.resource_group
    /\ HasKey(cmd.parameters, <<"--subscription">>)
    /\ DictAt(cmd.parameters, <<"--subscription">>) = target.subscription_id

\* C26: every command generate_alignment_commands returns names the resource group
\* and the subscription of one scan, the scan of the resource group the comparison
\* result was computed for
C26_OneConsistentScope ==
    (response.tool = "generate_alignment_commands" /\ response.status = "success") =>
        \A i \in 1..Len(session_state.commands[1]) :
            \E target \in ScanTargets :
                /\ InScopeOf(session_state.commands[1][i], target)
                /\ target.resource_group
                       = session_state.comparison_result[1].resource_group

\* C27: matched_count, the drifted and the live-only resources add up to the number
\* of distinct (resource_type, lower-cased name) keys of the live records, and
\* matched_count plus the drifted resources never exceed azure_resource_count
C27_LiveKeysCountedOnce ==
    Compared =>
        /\ Result.matched_count + Len(Drifted) + Len(MissingInTf) = Cardinality(LiveKeys)
        /\ Result.matched_count + Len(Drifted) <= Result.azure_resource_count

\* the declarative inputs whose derived name is unresolved
UnresolvedTf == (1..Len(terraform_resources)) \ ResolvedTf

\* C28: matched_count, the drifted and the declarative-only resources and the inputs
\* with an unresolved derived name add up to terraform_resource_count, which is the
\* length of the declarative input; azure_resource_count is the length of the live
\* input
C28_DeclaredCountedOnce ==
    Compared =>
        /\ Result.matched_count + Len(Drifted) + Len(MissingInAzure)
               + Cardinality(UnresolvedTf) = Result.terraform_resource_count
        /\ Result.terraform_resource_count = Len(terraform_resources)
        /\ Result.azure_resource_count = Len(azure_resources)

\* C28 witness: a compared pair of inputs of which one declarative resource has an
\* unresolved name and the other has no live counterpart
C28_Witness ==
    /\ Compared
    /\ Len(terraform_resources) = 2
    /\ Cardinality(UnresolvedTf) = 1
    /\ Len(MissingInAzure) = 1
    /\ Len(azure_resources) = 2
    /\ Len(MissingInTf) = 2

\* the three keys a scan stores
ScanKeys(session) ==
    <<session.azure_resources, session.resource_group, session.subscription_id>>

\* C29: a scan_resource_group or fetch_terraform_from_git call that returns an error
\* leaves every key of the session as it was, and the three keys of a scan change
\* only together: all three to the values of one scan, or all three removed
C29_FailureKeepsSession ==
    [][ /\ ( /\ response'.tool \in {"scan_resource_group", "fetch_terraform_from_git"}
              /\ response'.status = "error" )
            => session_state' = session_state
        /\ ScanKeys(session_state') # ScanKeys(session_state)
            => \/ /\ response'.tool = "scan_resource_group"
                  /\ response'.status = "success"
                  /\ \E target \in ScanTargets :
                         ScanKeys(session_state')
                             = << <<target.resources>>, <<target.resource_group>>,
                                  <<target.subscription_id>> >>
               \/ ScanKeys(session_state') = <<<<>>, <<>>, <<>>>> ]_vars

\* C29 witness: a scan returned an error in a session that holds an earlier scan, a
\* source, a comparison and commands
C29_Witness ==
    /\ response.tool = "scan_resource_group"
    /\ response.status = "error"
    /\ session_state.azure_resources # <<>>
    /\ session_state.terraform_config # <<>>
    /\ session_state.comparison_result # <<>>
    /\ session_state.commands # <<>>

\* C30: whenever fetch_terraform_from_git has returned, the temporary directory
\* its clone made has been removed
C30_NoCloneOutlivesFetch ==
    (pc = "idle" /\ response.tool = "fetch_terraform_from_git") => temp_dirs = {}

\* C10: no PropertyDifference carries an unresolved declarative value.
C10_NoUnresolvedDifference ==
    Compared =>
        \A d \in SeqRange(Differences) :
            \A n \in 1..Len(d.property_differences) :
                ~(d.property_differences[n].terraform_value.k = "str"
                  /\ UnresolvedText(d.property_differences[n].terraform_value.s))

============================================================================
